---- MODULE Spec2Model ----
(***************************************************************************)
(* NeuroDark23: step sequencer.  Model of the look-ahead scheduler         *)
(* (Synth/audio_engine.js), the pattern store (Synth/timematrix.js), the   *)
(* melodic voice (Synth/bass_synth.js), the UI handlers that drive them    *)
(* (Synth/ui_controller.js and its earlier revision) and the clock worker. *)
(*                                                                         *)
(* Time is an integer number of units of 1/11600 s, so that every time the *)
(* program computes for the tempi used here is exact: 0.1 s = 1160,        *)
(* 0.01 s = 116, one step at 174 bpm = 1000, one step at 120 bpm = 1450.   *)
(* JavaScript's non-finite numbers are the two values NaNv and PosInf.     *)
(***************************************************************************)
EXTENDS Integers, Sequences, FiniteSets, TLC

VARIABLES
    ctx,              \* AudioEngine.ctx: "none" before init, "running" after
    clock,            \* ctx.currentTime
    clockWorker,      \* AudioEngine.clockWorker: "none" | "created"
    workerTimer,      \* the worker's interval timer is armed
    toWorker,         \* messages posted to the worker, not yet processed by it
    pendingTicks,     \* "tick" messages posted by the worker, not yet handled
    isPlaying,        \* AppState.isPlaying
    bpm,              \* AppState.bpm
    currentPlayStep,  \* AppState.currentPlayStep
    currentPlayBlock, \* AppState.currentPlayBlock
    editingBlock,     \* AppState.editingBlock
    nextNoteTime,     \* AudioEngine.nextNoteTime
    visualQueue,      \* window.visualQueue
    blocks,           \* TimeMatrix.blocks
    clipboard,        \* TimeMatrix.clipboard
    bassSynths,       \* AudioEngine.bassSynths (ids, in array order)
    heap,             \* the voice instances: handle -> [lastFreq, params, osc]
    drumInst,         \* the drum synth instances: handle -> settings
    hung,             \* the main thread never left the scheduler loop
    edits,            \* number of pattern and tempo edits still to be made
    run,              \* history of the current playback run (see NewRun)
    render,           \* outcome of the last renderAudio (see NoRender)
    tm,               \* window.timeMatrix as a graph of objects (see Obj)
    ret,              \* what the last call on the pattern store returned
    hist,             \* history of the calls on the pattern store (see NoHist)
    ui,               \* what the interface shows (see NoUi)
    dsp               \* the filter, distortion and WAV stages (see NoDsp)

\* the engine with the patterns it plays, and the object graph of the store
engineVars == << ctx, clock, clockWorker, workerTimer, toWorker, pendingTicks,
                 isPlaying, bpm, currentPlayStep, currentPlayBlock, editingBlock,
                 nextNoteTime, visualQueue, blocks, clipboard, bassSynths, heap,
                 drumInst, hung, edits, run, render >>
storeVars == << tm, ret, hist >>
uiVars == << ui >>
dspVars == << dsp >>
vars == << engineVars, storeVars, uiVars, dspVars >>

-----------------------------------------------------------------------------
(* Bounds of the model *)

TotalSteps == 2
MaxBlocks == 2
MaxClock == 8120
MaxDispatch == 7
MaxPendingTicks == 1
MaxWorkerQueue == 1
MaxStarts == 2
MaxEdits == 1
MaxRenders == 1
MaxPatternEdits == 3

-----------------------------------------------------------------------------
(* Numbers *)

\* time units in a second
UnitsPerSecond == 11600

\* JavaScript NaN and Infinity, as they arise from 60.0 / bpm and parseInt
NaNv == 0 - 1000000000
PosInf == 1000000000

IsNaN(x) == x = NaNv

\* x + y on JavaScript numbers (no negative infinity arises here)
Add(x, y) ==
    IF IsNaN(x) \/ IsNaN(y) THEN NaNv
    ELSE IF x = PosInf \/ y = PosInf THEN PosInf
    ELSE x + y

\* x < y on JavaScript numbers: false as soon as one side is NaN
Lt(x, y) == ~IsNaN(x) /\ ~IsNaN(y) /\ x < y

\* this.lookahead = 0.1
Lookahead == 1160
\* startPlayback: this.ctx.currentTime + 0.1
StartLatency == 1160
\* this.interval = 25.0 (ms)
Interval == 290
\* renderAudio: let t = 0.01
RenderOffset == 116
\* scheduleNote: synth.play(..., 0.25, ...)
LiveGate == 2900
\* AppState.bpm initial value
InitialBpm == 174

\* 60.0 / bpm: the length of a beat (a quarter note)
SecPerBeat(b) ==
    IF IsNaN(b) THEN NaNv
    ELSE IF b = 0 THEN PosInf
    ELSE IF b > 0 THEN (60 * UnitsPerSecond) \div b
    ELSE 0 - ((60 * UnitsPerSecond) \div (0 - b))

\* advanceNote: (60.0 / AppState.bpm) / 4, the length of a step
SecPerStep(b) ==
    IF IsNaN(b) THEN NaNv
    ELSE IF b = 0 THEN PosInf
    ELSE IF b > 0 THEN ((60 * UnitsPerSecond) \div b) \div 4
    ELSE 0 - (((60 * UnitsPerSecond) \div (0 - b)) \div 4)

-----------------------------------------------------------------------------
(* Notes and frequencies *)

\* BassSynth.play: noteMap
NoteNames == << "C", "C#", "D", "D#", "E", "F", "F#", "G", "G#", "A", "A#", "B" >>

\* a lookup that yields the first pitch class for a name it does not hold
NoteIndexOrC(note) ==
    IF \E i \in 1..12 : NoteNames[i] = note
    THEN (CHOOSE i \in 1..12 : NoteNames[i] = note) - 1
    ELSE 0

\* noteMap[note]: 0..11, or -1 for undefined
NoteIndex(note) ==
    IF \E i \in 1..12 : NoteNames[i] = note
    THEN (CHOOSE i \in 1..12 : NoteNames[i] = note) - 1
    ELSE 0 - 1

\* the note number counted from octave 0
MidiNoteFromZero(octave, noteIndex) ==
    IF IsNaN(octave) THEN NaNv ELSE octave * 12 + noteIndex

\* (octave + 1) * 12 + noteIndex
MidiNote(octave, noteIndex) ==
    IF IsNaN(octave) THEN NaNv ELSE (octave + 1) * 12 + noteIndex

\* 440 * 2^((m - 69) / 12) for m = 0..11, in units of 1/1024 Hz
BaseFreq == << 8372, 8870, 9397, 9956, 10548, 11175,
               11840, 12544, 13290, 14080, 14917, 15804 >>

RECURSIVE Pow2(_)
Pow2(n) == IF n <= 0 THEN 1 ELSE 2 * Pow2(n - 1)

\* 440 * Math.pow(2, (midiNote - 69) / 12), in units of 1/1024 Hz (midiNote >= 0)
Freq(midiNote) ==
    IF IsNaN(midiNote) THEN NaNv
    ELSE BaseFreq[(midiNote % 12) + 1] * Pow2(midiNote \div 12)

-----------------------------------------------------------------------------
(* Pattern store: TimeMatrix *)

\* an empty slot of a track (JavaScript null)
Null == [note |-> "null", octave |-> 0, slide |-> FALSE, accent |-> FALSE]

NoteEvent(n, o, s, a) == [note |-> n, octave |-> o, slide |-> s, accent |-> a]

\* new Array(this.totalSteps).fill(null)
EmptyCells == [s \in 1..TotalSteps |-> Null]
\* new Array(this.totalSteps).fill().map(()=>[])
EmptyDrums == [s \in 1..TotalSteps |-> << >>]

\* Object.keys(b.tracks), in insertion order
TrackKeys(b) == [i \in 1..Len(b.tracks) |-> b.tracks[i].id]
HasTrack(b, id) == \E i \in 1..Len(b.tracks) : b.tracks[i].id = id

\* registerTrack(id), on one block
RegisterIn(b, id) ==
    IF HasTrack(b, id) THEN b
    ELSE [b EXCEPT !.tracks = Append(@, [id |-> id, cells |-> EmptyCells])]

RegisterTrack(bs, id) == [i \in 1..Len(bs) |-> RegisterIn(bs[i], id)]

\* removeTrack(id): delete b.tracks[id] in every block
RemoveTrack(bs, id) ==
    [i \in 1..Len(bs) |->
        [bs[i] EXCEPT !.tracks = SelectSeq(@, LAMBDA t : t.id # id)]]

\* addBlock()
AddBlock(bs) ==
    LET keys == IF Len(bs) > 0 THEN TrackKeys(bs[1]) ELSE << "bass-1" >>
    IN Append(bs, [tracks |-> [i \in 1..Len(keys) |-> [id |-> keys[i], cells |-> EmptyCells]],
                   drums |-> EmptyDrums])

\* clearBlock(idx), idx counted from 0
ClearBlock(bs, idx) ==
    IF idx < 0 \/ idx >= Len(bs) THEN bs
    ELSE [bs EXCEPT ![idx + 1] =
            [tracks |-> [i \in 1..Len(@.tracks) |->
                            [id |-> @.tracks[i].id,
                             cells |-> [s \in 1..Len(@.tracks[i].cells) |-> Null]]],
             drums |-> [s \in 1..Len(@.drums) |-> << >>]]]

\* Array.prototype.splice(idx, 1), for 0 <= idx
SpliceOut(bs, idx) ==
    [i \in 1..(IF idx < Len(bs) THEN Len(bs) - 1 ELSE Len(bs)) |->
        IF i <= idx THEN bs[i] ELSE bs[i + 1]]

\* removeBlock(idx)
RemoveBlock(bs, idx) ==
    IF Len(bs) <= 1 THEN ClearBlock(bs, 0) ELSE SpliceOut(bs, idx)

\* this.clipboard = null
NoClipboard == [tracks |-> << >>, drums |-> << >>, null |-> TRUE]

\* the deep copy made by copyToClipboard and pasteFromClipboard
CopyBlock(b) ==
    [tracks |-> [i \in 1..Len(b.tracks) |->
                    [id |-> b.tracks[i].id,
                     cells |-> [s \in 1..Len(b.tracks[i].cells) |-> b.tracks[i].cells[s]]]],
     drums |-> [s \in 1..Len(b.drums) |-> [j \in 1..Len(b.drums[s]) |-> b.drums[s][j]]]]

\* copyToClipboard(idx): the new clipboard
CopyToClipboard(bs, clip, idx) ==
    IF idx < 0 \/ idx >= Len(bs) THEN clip ELSE CopyBlock(bs[idx + 1])

\* pasteFromClipboard(idx): blocks.splice(idx + 1, 0, copy), for idx >= -1
PasteFromClipboard(bs, clip, idx) ==
    IF clip = NoClipboard THEN bs
    ELSE LET at == IF idx + 1 > Len(bs) THEN Len(bs) ELSE idx + 1
         IN [i \in 1..(Len(bs) + 1) |->
               IF i <= at THEN bs[i]
               ELSE IF i = at + 1 THEN CopyBlock(clip) ELSE bs[i - 1]]

\* the block's data with the index held inside the chain
GetStepDataClamped(bs, step, block) ==
    LET b == IF block >= Len(bs) THEN Len(bs) - 1 ELSE block
    IN [tracks |-> bs[b + 1].tracks, drums |-> bs[b + 1].drums[step + 1]]

\* getStepData(step, block): {} when the block does not exist, else the
\* block's tracks and the drums of the step
GetStepData(bs, step, block) ==
    IF block < 0 \/ block >= Len(bs)
    THEN [tracks |-> << >>, drums |-> << >>]
    ELSE [tracks |-> bs[block + 1].tracks,
          drums |-> IF step + 1 \in DOMAIN bs[block + 1].drums
                    THEN bs[block + 1].drums[step + 1] ELSE << >>]

-----------------------------------------------------------------------------
(* Pattern store: the objects of TimeMatrix *)

\* The store as a graph of JavaScript objects, t = [blocks, clipboard, mem]:
\* mem[a] is the object at address a, blocks holds the addresses in
\* this.blocks (0 for undefined) and clipboard the address in this.clipboard
\* (0 for null).  The objects:
\*   "block"   refs = << the tracks object, the drums array >>
\*   "tracks"  keys = Object.keys in insertion order, refs = the track array
\*             of each key
\*   "array"   refs = the elements: the notes of a track (0 for null), or the
\*             drum lists of a block
\*   "note"    note = the NoteEvent
\*   "list"    ids = the drum ids of one step
Obj(kind, refs, keys, note, ids) ==
    [kind |-> kind, refs |-> refs, keys |-> keys, note |-> note, ids |-> ids]
BlockObj(tracks, drums) == Obj("block", << tracks, drums >>, << >>, Null, << >>)
TracksObj(keys, refs) == Obj("tracks", refs, keys, Null, << >>)
ArrayObj(refs) == Obj("array", refs, << >>, Null, << >>)
NoteObj(n) == Obj("note", << >>, << >>, n, << >>)
ListObj(ids) == Obj("list", << >>, << >>, Null, ids)

\* this.blocks[idx]
BlockAt(t, idx) == IF idx >= 0 /\ idx < Len(t.blocks) THEN t.blocks[idx + 1] ELSE 0

\* b.tracks and b.drums of the block at address b
TracksOf(mem, b) == mem[b].refs[1]
DrumsOf(mem, b) == mem[b].refs[2]

\* the position of key id in Object.keys(tracks), 0 when absent
KeyIndex(mem, tracks, id) ==
    IF \E i \in 1..Len(mem[tracks].keys) : mem[tracks].keys[i] = id
    THEN CHOOSE i \in 1..Len(mem[tracks].keys) : mem[tracks].keys[i] = id
    ELSE 0

\* org.tracks[k].slice(): a new array of the same note objects
TmSliceArray(mem, arr) ==
    [mem |-> Append(mem, ArrayObj(mem[arr].refs)), addr |-> Len(mem) + 1]

\* org.tracks[k].map(n => n ? {...n} : null): a new array of new note objects
TmCloneArray(mem, arr) ==
    LET refs == mem[arr].refs
        filled == SelectSeq([i \in 1..Len(refs) |-> i], LAMBDA i : refs[i] # 0)
        notes == [j \in 1..Len(filled) |-> NoteObj(mem[refs[filled[j]]].note)]
        rank(s) == Cardinality({i \in 1..s : refs[i] # 0})
        new == [s \in 1..Len(refs) |-> IF refs[s] = 0 THEN 0 ELSE Len(mem) + rank(s)]
    IN [mem |-> (mem \o notes) \o << ArrayObj(new) >>,
        addr |-> Len(mem) + Len(notes) + 1]

\* Object.keys(org.tracks).forEach(k => newTracks[k] = ...), from the i-th key
\* on; acc holds the arrays made so far
RECURSIVE TmCloneTracks(_, _, _, _)
TmCloneTracks(mem, src, i, acc) ==
    IF i > Len(mem[src].keys)
    THEN [mem |-> Append(mem, TracksObj(mem[src].keys, acc)), addr |-> Len(mem) + 1]
    ELSE LET c == TmCloneArray(mem, mem[src].refs[i])
         IN TmCloneTracks(c.mem, src, i + 1, Append(acc, c.addr))

\* org.drums.map(d => [...d])
TmCloneDrums(mem, arr) ==
    LET refs == mem[arr].refs
        lists == [s \in 1..Len(refs) |-> ListObj(mem[refs[s]].ids)]
    IN [mem |-> (mem \o lists) \o << ArrayObj([s \in 1..Len(refs) |-> Len(mem) + s]) >>,
        addr |-> Len(mem) + Len(refs) + 1]

\* the block itself in place of a copy
TmSameBlock(mem, b) == [mem |-> mem, addr |-> b]

\* { tracks: newTracks, drums: newDrums }: the deep copy of the block at b
TmCloneBlock(mem, b) ==
    LET t == TmCloneTracks(mem, TracksOf(mem, b), 1, << >>)
        d == TmCloneDrums(t.mem, DrumsOf(mem, b))
    IN [mem |-> Append(d.mem, BlockObj(t.addr, d.addr)), addr |-> Len(d.mem) + 1]

\* the index Array.prototype.splice starts at, on an array of n elements
SpliceStart(start, n) ==
    IF start < 0 THEN (IF n + start < 0 THEN 0 ELSE n + start)
    ELSE IF start > n THEN n ELSE start

\* seq.splice(start, 0, x)
SpliceIn(seq, start, x) ==
    LET at == SpliceStart(start, Len(seq))
    IN [i \in 1..(Len(seq) + 1) |->
          IF i <= at THEN seq[i] ELSE IF i = at + 1 THEN x ELSE seq[i - 1]]

\* seq.splice(start, 1)
SpliceOne(seq, start) ==
    LET at == SpliceStart(start, Len(seq))
    IN IF at >= Len(seq) THEN seq
       ELSE [i \in 1..(Len(seq) - 1) |-> IF i <= at THEN seq[i] ELSE seq[i + 1]]

\* addBlock()
TmAddBlock(t) ==
    LET keys == IF Len(t.blocks) > 0 THEN t.mem[TracksOf(t.mem, t.blocks[1])].keys
                ELSE << "bass-1" >>
        n == Len(t.mem)
        k == Len(keys)
        arrays == [i \in 1..k |-> ArrayObj([s \in 1..TotalSteps |-> 0])]
        lists == [s \in 1..TotalSteps |-> ListObj(<< >>)]
        tracks == TracksObj(keys, [i \in 1..k |-> n + i])
        drums == ArrayObj([s \in 1..TotalSteps |-> n + k + 1 + s])
        block == BlockObj(n + k + 1, n + k + TotalSteps + 2)
    IN [tm |-> [t EXCEPT !.mem = (((t.mem \o arrays) \o << tracks >>) \o lists)
                                     \o << drums, block >>,
                         !.blocks = Append(@, n + k + TotalSteps + 3)],
        ret |-> "undefined"]

\* duplicateBlock(idx)
TmDuplicateBlock(t, idx) ==
    IF BlockAt(t, idx) = 0 THEN [tm |-> t, ret |-> "undefined"]
    ELSE LET c == TmCloneBlock(t.mem, BlockAt(t, idx))
         IN [tm |-> [t EXCEPT !.mem = c.mem, !.blocks = SpliceIn(@, idx + 1, c.addr)],
             ret |-> "undefined"]

\* copyToClipboard(idx)
TmCopyToClipboard(t, idx) ==
    IF BlockAt(t, idx) = 0 THEN [tm |-> t, ret |-> "false"]
    ELSE LET c == TmCloneBlock(t.mem, BlockAt(t, idx))
         IN [tm |-> [t EXCEPT !.mem = c.mem, !.clipboard = c.addr], ret |-> "true"]

\* pasteFromClipboard(idx) that inserts this.clipboard as it is
TmPasteUnchecked(t, idx) ==
    [tm |-> [t EXCEPT !.blocks = SpliceIn(@, idx + 1, t.clipboard)], ret |-> "true"]

\* pasteFromClipboard(idx) that puts the copy at the end of the chain
TmPasteAtEnd(t, idx) ==
    IF t.clipboard = 0 THEN [tm |-> t, ret |-> "false"]
    ELSE LET c == TmCloneBlock(t.mem, t.clipboard)
         IN [tm |-> [t EXCEPT !.mem = c.mem, !.blocks = Append(@, c.addr)],
             ret |-> "true"]

\* pasteFromClipboard(idx)
TmPasteFromClipboard(t, idx) ==
    IF t.clipboard = 0 THEN [tm |-> t, ret |-> "false"]
    ELSE LET c == TmCloneBlock(t.mem, t.clipboard)
         IN [tm |-> [t EXCEPT !.mem = c.mem, !.blocks = SpliceIn(@, idx + 1, c.addr)],
             ret |-> "true"]

\* clearBlock(idx) that leaves the drum lists as they are
TmClearNotesOnly(t, idx) ==
    LET b == BlockAt(t, idx)
        tracks == t.mem[TracksOf(t.mem, b)]
        arrays == { tracks.refs[i] : i \in 1..Len(tracks.refs) }
    IN IF b = 0 THEN [tm |-> t, ret |-> "undefined"]
       ELSE [tm |-> [t EXCEPT !.mem =
                       [a \in 1..Len(@) |->
                          IF a \in arrays
                          THEN ArrayObj([s \in 1..Len(@[a].refs) |-> 0])
                          ELSE @[a]]],
             ret |-> "undefined"]

\* clearBlock(idx): fill(null) on every track array, length = 0 on every drum list
TmClearBlock(t, idx) ==
    LET b == BlockAt(t, idx)
        tracks == t.mem[TracksOf(t.mem, b)]
        drums == t.mem[DrumsOf(t.mem, b)]
        arrays == { tracks.refs[i] : i \in 1..Len(tracks.refs) }
        lists == { drums.refs[s] : s \in 1..Len(drums.refs) }
    IN IF b = 0 THEN [tm |-> t, ret |-> "undefined"]
       ELSE [tm |-> [t EXCEPT !.mem =
                       [a \in 1..Len(@) |->
                          IF a \in arrays
                          THEN ArrayObj([s \in 1..Len(@[a].refs) |-> 0])
                          ELSE IF a \in lists THEN ListObj(<< >>) ELSE @[a]]],
             ret |-> "undefined"]

\* removeBlock(idx) that splices whatever the number of blocks
TmSpliceBlock(t, idx) ==
    [tm |-> [t EXCEPT !.blocks = SpliceOne(@, idx)], ret |-> "undefined"]

\* removeBlock(idx)
TmRemoveBlock(t, idx) ==
    IF Len(t.blocks) <= 1 THEN TmClearBlock(t, 0)
    ELSE [tm |-> [t EXCEPT !.blocks = SpliceOne(@, idx)], ret |-> "undefined"]

\* moveBlock(idx, dir): blocks[t] = blocks[idx]; blocks[idx] = tmp.  A write at
\* a negative index adds no element, a write at blocks.length or beyond
\* lengthens the array
TmMoveBlock(t, idx, dir) ==
    LET target == idx + dir
        n == Len(t.blocks)
        tmp == BlockAt(t, target)
        n2 == IF idx >= n THEN idx + 1 ELSE n
    IN IF target < 0 \/ target >= n THEN [tm |-> t, ret |-> "false"]
       ELSE [tm |-> [t EXCEPT !.blocks =
                       [i \in 1..n2 |->
                          IF i = idx + 1 THEN tmp
                          ELSE IF i = target + 1 THEN BlockAt(t, idx)
                          ELSE IF i <= n THEN t.blocks[i] ELSE 0]],
             ret |-> "true"]

\* registerTrack(id) that gives every block a new empty array
TmResetTrack(t, id) ==
    LET fresh(mem, i) ==
            LET tr == TracksOf(mem, t.blocks[i])
                at == KeyIndex(mem, tr, id)
                withArray == Append(mem, ArrayObj([s \in 1..TotalSteps |-> 0]))
            IN [withArray EXCEPT ![tr] =
                  IF at = 0
                  THEN TracksObj(Append(@.keys, id), Append(@.refs, Len(mem) + 1))
                  ELSE TracksObj(@.keys, [@.refs EXCEPT ![at] = Len(mem) + 1])]
        all[i \in 0..Len(t.blocks)] == IF i = 0 THEN t.mem ELSE fresh(all[i - 1], i)
    IN [tm |-> [t EXCEPT !.mem = all[Len(t.blocks)]], ret |-> "undefined"]

\* registerTrack(id): blocks.forEach(b => { if(!b.tracks[id]) b.tracks[id] =
\* new Array(totalSteps).fill(null) })
TmRegisterTrack(t, id) ==
    LET reg(mem, i) ==
            LET tr == TracksOf(mem, t.blocks[i])
            IN IF KeyIndex(mem, tr, id) # 0 THEN mem
               ELSE [Append(mem, ArrayObj([s \in 1..TotalSteps |-> 0])) EXCEPT ![tr] =
                       TracksObj(Append(@.keys, id), Append(@.refs, Len(mem) + 1))]
        all[i \in 0..Len(t.blocks)] == IF i = 0 THEN t.mem ELSE reg(all[i - 1], i)
    IN [tm |-> [t EXCEPT !.mem = all[Len(t.blocks)]], ret |-> "undefined"]

\* removeTrack(id): blocks.forEach(b => delete b.tracks[id])
TmRemoveTrack(t, id) ==
    LET del(mem, i) ==
            LET tr == TracksOf(mem, t.blocks[i])
                keep == SelectSeq([j \in 1..Len(mem[tr].keys) |-> j],
                                  LAMBDA j : mem[tr].keys[j] # id)
            IN [mem EXCEPT ![tr] =
                  TracksObj([j \in 1..Len(keep) |-> @.keys[keep[j]]],
                            [j \in 1..Len(keep) |-> @.refs[keep[j]]])]
        all[i \in 0..Len(t.blocks)] == IF i = 0 THEN t.mem ELSE del(all[i - 1], i)
    IN [tm |-> [t EXCEPT !.mem = all[Len(t.blocks)]], ret |-> "undefined"]

\* the track array of key id in the block at index b, 0 when the key is absent
TrackArray(t, b, id) ==
    LET tr == TracksOf(t.mem, BlockAt(t, b))
        at == KeyIndex(t.mem, tr, id)
    IN IF at = 0 THEN 0 ELSE t.mem[tr].refs[at]

\* placeNote(note) with editingBlock = b, activeView = id, selectedStep = step
\* and currentOctave = octave
TmPlaceNote(t, b, id, step, note, octave) ==
    LET t1 == IF TrackArray(t, b, id) = 0 THEN TmRegisterTrack(t, id).tm ELSE t
        arr == TrackArray(t1, b, id)
        prev == t1.mem[arr].refs[step + 1]
        new == NoteEvent(note, octave,
                         IF prev # 0 THEN t1.mem[prev].note.slide ELSE FALSE,
                         IF prev # 0 THEN t1.mem[prev].note.accent ELSE FALSE)
    IN [t1 EXCEPT !.mem = [Append(@, NoteObj(new)) EXCEPT
                              ![arr] = ArrayObj([@.refs EXCEPT ![step + 1] = Len(t1.mem) + 1])]]

\* btn-delete-note: b.tracks[activeView][selectedStep] = null
TmDeleteNote(t, b, id, step) ==
    LET arr == TrackArray(t, b, id)
    IN IF arr = 0 THEN t
       ELSE [t EXCEPT !.mem[arr] = ArrayObj([@.refs EXCEPT ![step + 1] = 0])]

\* toggleNoteMod(prop): note[prop] = !note[prop] on the note object of the slot
TmToggleNoteMod(t, b, id, step, prop) ==
    LET arr == TrackArray(t, b, id)
        n == IF arr = 0 THEN 0 ELSE t.mem[arr].refs[step + 1]
    IN IF n = 0 THEN t
       ELSE [t EXCEPT !.mem[n] =
               NoteObj(IF prop = "slide" THEN [@.note EXCEPT !.slide = ~@]
                       ELSE [@.note EXCEPT !.accent = ~@])]

\* the drum editor's toggle: cur.splice(cur.indexOf(id), 1) or cur.push(id) on
\* the drum list of the step
TmToggleDrum(t, b, step, id) ==
    LET cur == t.mem[DrumsOf(t.mem, BlockAt(t, b))].refs[step + 1]
        ids == t.mem[cur].ids
        at == IF \E j \in 1..Len(ids) : ids[j] = id
              THEN CHOOSE j \in 1..Len(ids) : ids[j] = id /\ \A k \in 1..(j - 1) : ids[k] # id
              ELSE 0
    IN [t EXCEPT !.mem[cur] =
          ListObj(IF at = 0 THEN Append(ids, id)
                  ELSE [j \in 1..(Len(ids) - 1) |-> IF j < at THEN ids[j] ELSE ids[j + 1]])]

\* the contents of the block at address b, as the pattern it holds
BlockValue(mem, b) ==
    IF b = 0 THEN NoClipboard
    ELSE LET tr == mem[TracksOf(mem, b)]
             dr == mem[DrumsOf(mem, b)]
         IN [tracks |-> [i \in 1..Len(tr.keys) |->
                           [id |-> tr.keys[i],
                            cells |-> [s \in 1..Len(mem[tr.refs[i]].refs) |->
                                         IF mem[tr.refs[i]].refs[s] = 0 THEN Null
                                         ELSE mem[mem[tr.refs[i]].refs[s]].note]]],
             drums |-> [s \in 1..Len(dr.refs) |-> mem[dr.refs[s]].ids]]

\* the patterns of the chain
ChainValue(t) == [i \in 1..Len(t.blocks) |-> BlockValue(t.mem, t.blocks[i])]

\* the objects a block is made of: the block object, its tracks object, its
\* track arrays, its note objects, its drums array and its drum lists
Owned(mem, b) ==
    IF b = 0 THEN {}
    ELSE LET tr == mem[TracksOf(mem, b)]
             dr == mem[DrumsOf(mem, b)]
             arrays == { tr.refs[i] : i \in 1..Len(tr.refs) }
             notes == UNION { { mem[a].refs[s] : s \in 1..Len(mem[a].refs) } : a \in arrays }
         IN ({ b, TracksOf(mem, b), DrumsOf(mem, b) } \cup arrays \cup (notes \ {0}))
                \cup { dr.refs[s] : s \in 1..Len(dr.refs) }

\* a store built from patterns, every object new: what the constructor and
\* importFromCSV leave (addBlock, new arrays and a new object per imported note)
RECURSIVE TmOfBlocks(_, _)
TmOfBlocks(bs, i) ==
    IF i = 0 THEN [blocks |-> << >>, clipboard |-> 0, mem |-> << >>]
    ELSE LET t == TmOfBlocks(bs, i - 1)
             b == bs[i]
             n == Len(t.mem)
             k == Len(b.tracks)
             S == Len(b.drums)
             cellsOf(j) == b.tracks[j].cells
             filled(j) == SelectSeq([s \in 1..Len(cellsOf(j)) |-> s],
                                    LAMBDA s : cellsOf(j)[s] # Null)
             before[j \in 0..k] == IF j = 0 THEN 0 ELSE before[j - 1] + Len(filled(j))
             notes[j \in 0..k] ==
                 IF j = 0 THEN << >>
                 ELSE notes[j - 1] \o [x \in 1..Len(filled(j)) |->
                                         NoteObj(cellsOf(j)[filled(j)[x]])]
             rank(j, s) == Cardinality({x \in 1..s : cellsOf(j)[x] # Null})
             m == before[k]
             arrays == [j \in 1..k |->
                          ArrayObj([s \in 1..Len(cellsOf(j)) |->
                                      IF cellsOf(j)[s] = Null THEN 0
                                      ELSE n + before[j - 1] + rank(j, s)])]
             tracks == TracksObj([j \in 1..k |-> b.tracks[j].id],
                                 [j \in 1..k |-> n + m + j])
             lists == [s \in 1..S |-> ListObj(b.drums[s])]
             drums == ArrayObj([s \in 1..S |-> n + m + k + 1 + s])
             block == BlockObj(n + m + k + 1, n + m + k + S + 2)
         IN [t EXCEPT !.mem = ((((@ \o notes[k]) \o arrays) \o << tracks >>) \o lists)
                                  \o << drums, block >>,
                      !.blocks = Append(@, n + m + k + S + 3)]

-----------------------------------------------------------------------------
(* Voices *)

\* BassSynth constructor: this.params
DefaultParams ==
    [distortion |-> 20, cutoff |-> 40, resonance |-> 8, envMod |-> 60,
     decay |-> 40, waveform |-> "sawtooth"]

\* the frequency automation of the oscillator a voice created last: the value
\* set at the note's time and the value reached; 0 for what was never set
NoOsc == [from |-> 0, to |-> 0]

\* new BassSynth(id): lastFreq = 0 and the default parameters
NewVoice == [lastFreq |-> 0, params |-> DefaultParams, osc |-> NoOsc]

\* this.params.<name> = val
SetParam(p, name, val) ==
    [n \in (DOMAIN p) \cup {name} |-> IF n = name THEN val ELSE p[n]]

\* references to voice instances: the live ones and the ones renderAudio builds
LiveHandle(id) == << "live", id >>
\* the live voice itself in the place of a new one
SameVoice(id) == << "live", id >>
OfflineHandle(id) == << "off", id >>

\* osc.stop(time + duration + 1.5)
StopTail == 17400

\* play that starts every oscillator at the note's own frequency
BassPlayNoGlide(v, note, octave, time, duration, slide) ==
    LET noteIndex == NoteIndex(note)
        freq == Freq(MidiNote(octave, noteIndex))
        raises == IsNaN(freq) \/ time < 0
    IN  IF noteIndex < 0 THEN [v |-> v, threw |-> FALSE]
        ELSE IF raises
             THEN [v |-> [v EXCEPT !.osc = NoOsc], threw |-> TRUE]
             ELSE [v |-> [v EXCEPT !.lastFreq = freq, !.osc = [from |-> freq, to |-> freq]],
                   threw |-> (slide /\ duration < 0) \/ (time + duration + StopTail < 0)]

\* BassSynth.play(note, octave, time, duration, slide) on a voice with a context.
\* An AudioParam method raises for a non-finite value or a negative time; what
\* was assigned before the raise stays assigned.
BassPlay(v, note, octave, time, duration, slide) ==
    LET noteIndex == NoteIndex(note)
        freq == Freq(MidiNote(octave, noteIndex))
        glideFrom == IF v.lastFreq = 0 \/ IsNaN(v.lastFreq) THEN freq ELSE v.lastFreq
        raisesInGlide == IsNaN(freq) \/ time < 0
        raisesLater == (slide /\ duration < 0) \/ (time + duration + StopTail < 0)
    IN  IF noteIndex < 0 THEN [v |-> v, threw |-> FALSE]
        ELSE IF raisesInGlide
             THEN [v |-> [v EXCEPT !.lastFreq = glideFrom,
                                   !.osc = [from |-> IF slide /\ ~IsNaN(glideFrom) /\ time >= 0
                                                     THEN glideFrom ELSE 0,
                                            to |-> 0]],
                   threw |-> TRUE]
             ELSE [v |-> [v EXCEPT !.lastFreq = freq,
                                   !.osc = [from |-> IF slide THEN glideFrom ELSE freq,
                                            to |-> freq]],
                   threw |-> raisesLater]

\* importFromCSV / exportToCSV: drumOrder
DrumOrder == << "kick", "snare", "clap", "hat", "ohat", "tom", "htom" >>

\* DrumSynth.play(type, time): the types of the switch
DrumTypes == { "kick", "snare", "clap", "hat", "ohat", "tom", "htom",
               "perc", "chat", "ltom" }

\* DrumSynth.play(type, time): every recipe starts with setValueAtTime(.., time),
\* which raises for a negative time
DrumPlayThrows(type, time) == type \in DrumTypes /\ time < 0

-----------------------------------------------------------------------------
(* Dispatch of one step *)

DrumCall(id) ==
    [kind |-> "drum", id |-> id, note |-> "", octave |-> 0,
     slide |-> FALSE, accent |-> FALSE]
BassCall(tid, n) ==
    [kind |-> "bass", id |-> tid, note |-> n.note, octave |-> n.octave,
     slide |-> n.slide, accent |-> n.accent]

\* bassSynths.find(s => s.id === tid) on an array of voice references
HasVoice(voices, tid) == \E i \in 1..Len(voices) : voices[i][2] = tid
FindVoice(voices, tid) ==
    voices[CHOOSE i \in 1..Len(voices) :
              voices[i][2] = tid /\ \A j \in 1..(i - 1) : voices[j][2] # tid]

\* The play calls that dispatching a step makes, in the order it makes them:
\* data.drums.forEach(..), then Object.keys(data.tracks).forEach(..) for the
\* tracks with a note at the step and a voice of that id.
StepCalls(data, step, voices) ==
    LET drumCalls == [i \in 1..Len(data.drums) |-> DrumCall(data.drums[i])]
        sounding == SelectSeq(data.tracks,
                       LAMBDA t : /\ step + 1 \in DOMAIN t.cells
                                  /\ t.cells[step + 1] # Null
                                  /\ HasVoice(voices, t.id))
        bassCalls == [i \in 1..Len(sounding) |->
                        BassCall(sounding[i].id, sounding[i].cells[step + 1])]
    IN drumCalls \o bassCalls

\* Makes the calls from the i-th on, until one raises.  h is the table of voice
\* instances; the result holds the number of calls entered.
RECURSIVE RunCalls(_, _, _, _, _, _)
RunCalls(calls, i, h, voices, time, gate) ==
    IF i > Len(calls) THEN [heap |-> h, made |-> Len(calls), threw |-> FALSE]
    ELSE LET c == calls[i] IN
         IF c.kind = "drum"
         THEN IF DrumPlayThrows(c.id, time)
              THEN [heap |-> h, made |-> i, threw |-> TRUE]
              ELSE RunCalls(calls, i + 1, h, voices, time, gate)
         ELSE LET ref == FindVoice(voices, c.id)
                  r == BassPlay(h[ref], c.note, c.octave, time, gate, c.slide)
                  h2 == [h EXCEPT ![ref] = r.v]
              IN IF r.threw THEN [heap |-> h2, made |-> i, threw |-> TRUE]
                 ELSE RunCalls(calls, i + 1, h2, voices, time, gate)

\* the track ids that hold a note at the step and have no voice
SkippedTracks(data, step, voices) ==
    LET silent == SelectSeq(data.tracks,
                     LAMBDA t : /\ step + 1 \in DOMAIN t.cells
                                /\ t.cells[step + 1] # Null
                                /\ ~HasVoice(voices, t.id))
    IN [i \in 1..Len(silent) |-> silent[i].id]

\* this.bassSynths as an array of references
LiveVoices(ids) == [i \in 1..Len(ids) |-> LiveHandle(ids[i])]

\* scheduleNote(step, block, time), after the push on the visual queue
ScheduleNote(bs, ids, h, step, block, time) ==
    LET calls == StepCalls(GetStepData(bs, step, block), step, LiveVoices(ids))
        r == RunCalls(calls, 1, h, LiveVoices(ids), time, LiveGate)
    IN [heap |-> r.heap, calls |-> SubSeq(calls, 1, r.made), threw |-> r.threw,
        skipped |-> SkippedTracks(GetStepData(bs, step, block), step, LiveVoices(ids))]

\* a cursor that loops inside its block
AdvanceWithinBlock(step, block, n) ==
    IF step + 1 >= TotalSteps THEN << 0, block >> ELSE << step + 1, block >>

\* a cursor that moves on to the next block index without returning to block 0
AdvanceNoWrap(step, block, n) ==
    IF step + 1 >= TotalSteps THEN << 0, block + 1 >> ELSE << step + 1, block >>

\* advanceNote: the cursor after one step, in a chain of n blocks
AdvanceCursor(step, block, n) ==
    IF step + 1 >= TotalSteps
    THEN << 0, IF block + 1 >= n THEN 0 ELSE block + 1 >>
    ELSE << step + 1, block >>

-----------------------------------------------------------------------------
(* Voice list of the engine *)

\* addBassSynth(id) on st = [blocks, synths, heap]: no effect when the id
\* exists, else a new voice at the end of the list and registerTrack(id)
AddBassSynth(st, id) ==
    IF \E i \in 1..Len(st.synths) : st.synths[i] = id THEN st
    ELSE [st EXCEPT !.synths = Append(@, id),
                    !.heap = [h \in (DOMAIN @) \cup {LiveHandle(id)} |->
                                 IF h = LiveHandle(id) THEN NewVoice ELSE @[h]],
                    !.blocks = RegisterTrack(@, id)]

\* the ids that are a track key of some block, in order of first appearance
RECURSIVE ActiveIds(_, _)
ActiveIds(bs, i) ==
    IF i > Len(bs) THEN << >>
    ELSE LET rest == ActiveIds(bs, i + 1)
             here == TrackKeys(bs[i])
         IN here \o SelectSeq(rest, LAMBDA id : \A j \in 1..Len(here) : here[j] # id)

RECURSIVE AddAll(_, _, _)
AddAll(st, ids, i) ==
    IF i > Len(ids) THEN st ELSE AddAll(AddBassSynth(st, ids[i]), ids, i + 1)

\* syncWithMatrix(matrix)
SyncWithMatrix(st) ==
    LET active == ActiveIds(st.blocks, 1)
        isActive(id) == \E j \in 1..Len(active) : active[j] = id
        kept == SelectSeq(st.synths, isActive)
        pruned == [st EXCEPT !.synths = kept,
                             !.heap = [h \in {LiveHandle(kept[j]) : j \in 1..Len(kept)} |-> @[h]]]
    IN AddAll(pruned, active, 1)

-----------------------------------------------------------------------------
(* CSV import.  A file is the text split as importFromCSV splits it: the first
   two fields of the header as parseInt reads them (NaNv when they are not a
   number) and the rows; a melodic row holds its id, the numbers of its
   parameter field and, per global step, the fields of the cell: << >> for an
   empty or "0" cell, else the note and octave fields as parseInt reads them
   followed by the slide and accent fields. *)

\* this.noteMapRev
NoteMapRev == << "-", "C", "C#", "D", "D#", "E", "F", "F#", "G", "G#", "A", "A#", "B" >>

\* Math.ceil(a / b) for a >= 0, b > 0
CeilDiv(a, b) == (a + b - 1) \div b

RECURSIVE AddBlocks(_, _)
AddBlocks(bs, n) == IF n <= 0 THEN bs ELSE AddBlocks(AddBlock(bs), n - 1)

\* the cell of a row at global step g (counted from 0): cells[g + 1]
CellAt(row, g) == IF g + 1 \in DOMAIN row.cells THEN row.cells[g + 1] ELSE << >>

\* the drums row: a cell is the list of its characters
ActiveDrums(binary) ==
    LET idx == SelectSeq([i \in 1..Len(binary) |-> i],
                         LAMBDA i : binary[i] = "1" /\ i <= Len(DrumOrder))
    IN [j \in 1..Len(idx) |-> DrumOrder[idx[j]]]

ImportDrumRow(bs, row, total) ==
    [b \in 1..Len(bs) |->
        [bs[b] EXCEPT !.drums =
            [s \in 1..TotalSteps |->
                LET g == (b - 1) * TotalSteps + (s - 1)
                IN IF g < total /\ Len(CellAt(row, g)) > 0
                   THEN ActiveDrums(CellAt(row, g)) ELSE @[s]]]]

\* the ten setters called for a parameter field of at least ten numbers
ImportParams(p, pVals) ==
    IF Len(pVals) < 10 THEN p
    ELSE LET names == << "volume", "distortion", "distTone", "distGain", "cutoff",
                         "resonance", "envMod", "decay", "accentInt" >>
             set[i \in 0..9] ==
                 IF i = 0 THEN p ELSE SetParam(set[i - 1], names[i], pVals[i])
         IN SetParam(set[9], "waveform", IF pVals[10] = 1 THEN "square" ELSE "sawtooth")

\* one cell of a melodic row, or the slot as it was
ImportCell(old, parts) ==
    IF Len(parts) # 4 THEN old
    ELSE IF IsNaN(parts[1]) \/ parts[1] < 0 \/ parts[1] >= Len(NoteMapRev) THEN old
    ELSE NoteEvent(NoteMapRev[parts[1] + 1], parts[2], parts[3] = "1", parts[4] = "1")

ImportTrackRow(st, row, total) ==
    LET st1 == AddBassSynth(st, row.id)
        st2 == [st1 EXCEPT !.heap[LiveHandle(row.id)].params = ImportParams(@, row.pVals),
                           !.blocks = RegisterTrack(@, row.id)]
    IN [st2 EXCEPT !.blocks =
          [b \in 1..Len(@) |->
             [@[b] EXCEPT !.tracks =
                [t \in 1..Len(@) |->
                   IF @[t].id # row.id THEN @[t]
                   ELSE [@[t] EXCEPT !.cells =
                           [s \in 1..Len(@) |->
                              LET g == (b - 1) * TotalSteps + (s - 1)
                              IN IF g < total THEN ImportCell(@[s], CellAt(row, g))
                                 ELSE @[s]]]]]]]

RECURSIVE ImportRows(_, _, _, _)
ImportRows(st, rows, i, total) ==
    IF i > Len(rows) THEN st
    ELSE IF rows[i].kind = "drums"
         THEN ImportRows([st EXCEPT !.blocks = ImportDrumRow(@, rows[i], total)],
                         rows, i + 1, total)
         ELSE ImportRows(ImportTrackRow(st, rows[i], total), rows, i + 1, total)

\* importFromCSV emptying this.blocks before it has read the metadata
ImportResetFirst(st, file) ==
    IF Len(file.rows) < 1 \/ IsNaN(file.bpm) \/ IsNaN(file.total)
    THEN [ok |-> FALSE, st |-> [st EXCEPT !.blocks = << >>]]
    ELSE LET fresh == [st EXCEPT !.bpm = file.bpm,
                                 !.blocks = AddBlocks(<< >>, CeilDiv(file.total, TotalSteps))]
         IN [ok |-> TRUE, st |-> ImportRows(fresh, file.rows, 1, file.total)]

\* importFromCSV(csvData) on st = [bpm, blocks, synths, heap]
ImportFromCSV(st, file) ==
    IF Len(file.rows) < 1 \/ IsNaN(file.bpm) \/ IsNaN(file.total)
    THEN [ok |-> FALSE, st |-> st]
    ELSE LET fresh == [st EXCEPT !.bpm = file.bpm,
                                 !.blocks = AddBlocks(<< >>, CeilDiv(file.total, TotalSteps))]
         IN [ok |-> TRUE, st |-> ImportRows(fresh, file.rows, 1, file.total)]

-----------------------------------------------------------------------------
(* CSV export.  exportToCSV writes numbers with template literals and joins
   them with '-'; the file it yields is given here as importFromCSV splits
   and reads that text. *)

\* the fields that split('-') and parseInt find in the text `${v}`: the text of
\* a negative number begins with the separator, so it yields an empty field
\* (read as NaN) and then the digits; "NaN" and "undefined" read as NaN
DashFields(v) == IF ~IsNaN(v) /\ v < 0 THEN << NaNv, 0 - v >> ELSE << v >>

\* this.noteMap[name] || 0
NoteMap(name) ==
    IF \E i \in 2..Len(NoteMapRev) : NoteMapRev[i] = name
    THEN (CHOOSE i \in 2..Len(NoteMapRev) : NoteMapRev[i] = name) - 1
    ELSE 0

\* `${bpm}-${totalStepsGlobal}-${synths.length}` as headerCells[0].split('-')
ExportHeader(b, total, n) == DashFields(b) \o DashFields(total) \o DashFields(n)

\* `${p.volume}-..-${waveInt}` as paramsStr.split('-').map(Number)
ExportParams(p) ==
    LET val(name) == IF name \in DOMAIN p THEN p[name] ELSE NaNv
    IN DashFields(val("volume")) \o DashFields(val("distortion"))
         \o DashFields(val("distTone")) \o DashFields(val("distGain"))
         \o DashFields(val("cutoff")) \o DashFields(val("resonance"))
         \o DashFields(val("envMod")) \o DashFields(val("decay"))
         \o DashFields(val("accentInt"))
         \o << IF p.waveform = "square" THEN 1 ELSE 0 >>

\* `,${nInt}-${n.octave}-${sld}-${acc}` or `,0`
ExportCell(n) ==
    IF n = Null THEN << >>
    ELSE DashFields(NoteMap(n.note)) \o DashFields(n.octave)
           \o << IF n.slide THEN "1" ELSE "0", IF n.accent THEN "1" ELSE "0" >>

\* block.tracks[id], or no track
TrackOf(b, id) ==
    IF HasTrack(b, id)
    THEN (CHOOSE i \in 1..Len(b.tracks) : b.tracks[i].id = id)
    ELSE 0

\* the row of one voice: its cells over the blocks in chain order
ExportTrackRow(bs, id, p) ==
    [kind |-> "track", id |-> id, pVals |-> ExportParams(p),
     cells |-> [g \in 1..(Len(bs) * TotalSteps) |->
                  LET b == bs[((g - 1) \div TotalSteps) + 1]
                      s == ((g - 1) % TotalSteps) + 1
                      t == TrackOf(b, id)
                  IN IF t = 0 THEN << >> ELSE ExportCell(b.tracks[t].cells[s])]]

\* the drums row: one character per entry of drumOrder
ExportDrumRow(bs) ==
    [kind |-> "drums",
     cells |-> [g \in 1..(Len(bs) * TotalSteps) |->
                  LET dStep == bs[((g - 1) \div TotalSteps) + 1].drums[((g - 1) % TotalSteps) + 1]
                  IN [i \in 1..Len(DrumOrder) |->
                        IF \E j \in 1..Len(dStep) : dStep[j] = DrumOrder[i]
                        THEN "1" ELSE "0"]]]

\* exportToCSV() on st = [bpm, blocks, synths, heap]
ExportToCSV(st) ==
    LET meta == ExportHeader(st.bpm, Len(st.blocks) * TotalSteps, Len(st.synths))
    IN [bpm |-> meta[1], total |-> meta[2],
        rows |-> [i \in 1..Len(st.synths) |->
                    ExportTrackRow(st.blocks, st.synths[i],
                                   st.heap[LiveHandle(st.synths[i])].params)]
                 \o << ExportDrumRow(st.blocks) >>]

-----------------------------------------------------------------------------
(* The scheduler *)

\* bound on the iterations of one scheduler() call that the model follows
LoopFuel == 24

\* History of the playback run begun by the last successful startPlayback:
\*   t0, startBlock  nextNoteTime and the cursor block set by that start
\*   bpmFixed        AppState.bpm has not changed since
\*   patFixed        the pattern store and the voice list have not changed since
\*   log             the scheduleNote calls: step, block, time, the number k of
\*                   cursor advances before the call, the play calls it made,
\*                   the number n of blocks then, the tracks it skipped and the
\*                   gate length it passed to the voices
\*   advances        the advanceNote calls
\*   throws, throwAt the scheduleNote calls that raised, and k at the first
NoRun ==
    [starts |-> 0, t0 |-> 0, startBlock |-> 0, bpmFixed |-> FALSE,
     patFixed |-> FALSE, log |-> << >>, advances |-> 0, throws |-> 0,
     throwAt |-> 0]

\* scheduler(): the while loop, on s = [step, block, nnt, heap, vq, run]
RECURSIVE Scheduler(_, _, _, _, _, _)
Scheduler(s, now, b, bs, ids, fuel) ==
    IF ~Lt(s.nnt, Add(now, Lookahead)) THEN [s EXCEPT !.status = "done"]
    ELSE IF fuel = 0 THEN [s EXCEPT !.status = "hung"]
    ELSE LET d == ScheduleNote(bs, ids, s.heap, s.step, s.block, s.nnt)
             entry == [step |-> s.step, block |-> s.block, time |-> s.nnt,
                       k |-> s.run.advances, calls |-> d.calls,
                       n |-> Len(bs), skipped |-> d.skipped, gate |-> LiveGate]
             s1 == [s EXCEPT !.heap = d.heap,
                             !.vq = Append(@, [step |-> s.step, block |-> s.block,
                                               time |-> s.nnt]),
                             !.run.log = Append(@, entry)]
             next == AdvanceCursor(s.step, s.block, Len(bs))
         IN IF d.threw
            THEN [s1 EXCEPT !.status = "threw",
                            !.run.throws = @ + 1,
                            !.run.throwAt = IF s.run.throws = 0 THEN s.run.advances ELSE @]
            ELSE Scheduler([s1 EXCEPT !.nnt = Add(@, SecPerStep(b)),
                                      !.step = next[1],
                                      !.block = next[2],
                                      !.run.advances = @ + 1],
                           now, b, bs, ids, fuel - 1)

-----------------------------------------------------------------------------
(* Inputs *)

\* values typed into the bpm input, as dividing 60.0 by them reads them:
\* "120", "-120" and a text that is not a number
BpmInputs == { 120, 0 - 120, NaNv }

\* advances of the audio clock between two events: four worker intervals, and a
\* stall of 0.3 s
ClockSteps == { 4 * Interval, 12 * Interval }

NoteA == << 10, 2, "0", "0" >>
NoteCSlide == << 1, 3, "1", "0" >>
NoteBadOctave == << 10, NaNv, "0", "0" >>
NoParams == << >>
Kick == << "1", "0", "0", "0", "0", "0", "0" >>

\* "120-<2S>-2" / "bass-1:,<A2>,0..,<C3 slide>,0.." / "bass-2:,0..,<A2>,0.." /
\* "drums:7,1000000,.."
FileTwoBlocks ==
    [bpm |-> 120, total |-> 2 * TotalSteps,
     rows |-> << [kind |-> "track", id |-> "bass-1", pVals |-> NoParams,
                  cells |-> [g \in 1..(2 * TotalSteps) |->
                               IF g = 1 THEN NoteA
                               ELSE IF g = TotalSteps + 1 THEN NoteCSlide ELSE << >>]],
                [kind |-> "track", id |-> "bass-2", pVals |-> NoParams,
                 cells |-> [g \in 1..(2 * TotalSteps) |->
                              IF g = TotalSteps + 1 THEN NoteA ELSE << >>]],
                [kind |-> "drums",
                 cells |-> [g \in 1..(2 * TotalSteps) |-> IF g = 1 THEN Kick ELSE << >>]] >>]

\* "120-<S>-1" / "bass-1:,0,10-x-0-0,0.." : a cell whose octave is not a number
FileBadOctave ==
    [bpm |-> 120, total |-> TotalSteps,
     rows |-> << [kind |-> "track", id |-> "bass-1", pVals |-> NoParams,
                  cells |-> [g \in 1..TotalSteps |->
                               IF g = 2 THEN NoteBadOctave ELSE << >>]] >>]

\* "0-<S>-1" / "bass-2:50-30-..-1,<A2>,0.." : tempo 0, a second voice with parameters
FileTempoZero ==
    [bpm |-> 0, total |-> TotalSteps,
     rows |-> << [kind |-> "track", id |-> "bass-2",
                  pVals |-> << 50, 30, 50, 50, 70, 10, 60, 40, 50, 1 >>,
                  cells |-> [g \in 1..TotalSteps |-> IF g = 1 THEN NoteA ELSE << >>]] >>]

\* "120-<S>-2" / "bass-1:,<A2>,0.." / "bass-2:,<A2>,0.." / "drums:7,1000000,.."
FileTwoVoices ==
    [bpm |-> 120, total |-> TotalSteps,
     rows |-> << [kind |-> "track", id |-> "bass-1", pVals |-> NoParams,
                  cells |-> [g \in 1..TotalSteps |-> IF g = 1 THEN NoteA ELSE << >>]],
                [kind |-> "track", id |-> "bass-2", pVals |-> NoParams,
                 cells |-> [g \in 1..TotalSteps |-> IF g = 1 THEN NoteA ELSE << >>]],
                [kind |-> "drums",
                 cells |-> [g \in 1..TotalSteps |-> IF g = 1 THEN Kick ELSE << >>]] >>]

\* "120-0-1" / "bass-1:" : a header that announces no step
FileNoSteps ==
    [bpm |-> 120, total |-> 0,
     rows |-> << [kind |-> "track", id |-> "bass-1", pVals |-> NoParams,
                  cells |-> << >>] >>]

CsvFiles == { FileTwoBlocks, FileBadOctave, FileTempoZero, FileNoSteps }

\* the interface after construction: no step of the grid is marked as playing,
\* UIController.lastDrawnStep is -1 and AppState.followPlayback is not set
NoUi == [highlight |-> 0 - 1, lastDrawnStep |-> 0 - 1, followPlayback |-> FALSE]

\* timeMatrix.render(view, block), reached through updateEditors(): the grid
\* is emptied and built again, so no cell carries the playing mark
Render(u) == [u EXCEPT !.highlight = 0 - 1]

\* highlightPlayingStep(index): the mark is taken from the cell that has it and
\* set on cell index if the grid has such a cell (drawn: the grid shows a block)
HighlightPlayingStep(u, index, drawn) ==
    [u EXCEPT !.highlight = IF index >= 0 /\ drawn THEN index ELSE 0 - 1]

\* BassFilter.create: let decayTime = 0.1 + (params.decay / 100) * 0.8, the
\* 0.18 of an accent, and the factor 1.2 of a slide as twelve tenths
BaseDecay == 1160
DecaySpan == 9280
AccentDecay == 2088
SlideNum == 12
SlideDen == 10

\* decayTime with the accent assigned last, so that it wins over the slide
FilterDecayAccentLast(params, duration, slide, accent) ==
    LET d0 == BaseDecay + (params.decay * DecaySpan) \div 100
        d1 == IF slide THEN (duration * SlideNum) \div SlideDen ELSE d0
    IN IF accent THEN AccentDecay ELSE d1

\* BassFilter.create(ctx, time, params, duration, slide, accent).decayTime: the
\* three assignments in the order of the code (the decay values followed are
\* those for which the products are whole numbers of time units)
FilterDecay(params, duration, slide, accent) ==
    LET d0 == BaseDecay + (params.decay * DecaySpan) \div 100
        d1 == IF accent THEN AccentDecay ELSE d0
    IN IF slide THEN (duration * SlideNum) \div SlideDen ELSE d1

\* shaper.curve = null, and the curve a generator computes for the amount k
NullCurve == [family |-> "none", k |-> 0]
MakeAsymmetricCurve(amount) == [family |-> "asymmetric", k |-> amount]
MakeDistortionCurve(amount) == [family |-> "sigmoid", k |-> amount]

\* curveCache.has(amount), and curveCache.set(amount, curve)
CacheHas(cache, amount) == amount \in DOMAIN cache
CacheSet(cache, amount, curve) ==
    [a \in (DOMAIN cache) \cup {amount} |-> IF a = amount THEN curve ELSE cache[a]]

\* curveCache.get(amount) for an amount the cache has
CacheGet(cache, amount) == cache[amount]

\* new BassDistortion(ctx) of the asymmetric family: no curve, an empty cache
\* and currentAmt = -1
NewAsymmetric == [currentAmt |-> 0 - 1, cache |-> << >>, curve |-> NullCurve]

\* setDistortion that leaves the shaper's curve in place in clean mode
SetDistortionKeepCurve(d, amount) ==
    IF d.currentAmt = amount THEN d
    ELSE IF amount <= 1
         THEN [d EXCEPT !.currentAmt = amount]
         ELSE LET c == IF CacheHas(d.cache, amount) THEN d.cache
                       ELSE CacheSet(d.cache, amount, MakeAsymmetricCurve(amount))
              IN [d EXCEPT !.currentAmt = amount, !.cache = c,
                           !.curve = CacheGet(c, amount)]

\* the asymmetric BassDistortion.setDistortion(amount)
SetDistortionAsymmetric(d, amount) ==
    IF d.currentAmt = amount THEN d
    ELSE IF amount <= 1
         THEN [d EXCEPT !.currentAmt = amount, !.curve = NullCurve]
         ELSE LET c == IF CacheHas(d.cache, amount) THEN d.cache
                       ELSE CacheSet(d.cache, amount, MakeAsymmetricCurve(amount))
              IN [d EXCEPT !.currentAmt = amount, !.cache = c,
                           !.curve = CacheGet(c, amount)]

\* new BassDistortion(ctx) of the sigmoid family: amount = 0, cachedCurve = null
NewSigmoid == [amount |-> 0, cachedCurve |-> NullCurve, curve |-> NullCurve]

\* the sigmoid BassDistortion.setDistortion(amount); nothing assigns cachedCurve
SetDistortionSigmoid(d, amount) ==
    IF amount = d.amount /\ d.cachedCurve # NullCurve THEN d
    ELSE IF amount <= 0
         THEN [d EXCEPT !.amount = amount, !.curve = NullCurve]
         ELSE [d EXCEPT !.amount = amount, !.curve = MakeDistortionCurve(amount)]

\* samples are written as multiples of 1 / SampleDen
SampleDen == 4
PcmPos == 32767
PcmNeg == 32768

\* x | 0 for the quotient num / den: the fraction is cut off towards zero
Truncate(num, den) ==
    IF num >= 0 THEN num \div den ELSE 0 - ((0 - num) \div den)

\* Math.round of the quotient num / den
Round(num, den) == (2 * num + den) \div (2 * den)

\* Math.max(-1, Math.min(1, x)) for x = s / SampleDen
Clamp(s) == IF s > SampleDen THEN SampleDen ELSE IF s < 0 - SampleDen THEN 0 - SampleDen ELSE s

\* bufferToWave: (0.5 + sample < 0 ? sample * 32768 : sample * 32767) | 0 on the
\* clamped sample s / SampleDen; the comparison is (0.5 + sample) < 0
Quantize(s) ==
    LET c == Clamp(s)
    IN IF 2 * c + SampleDen < 0 THEN Truncate(c * PcmNeg, SampleDen)
       ELSE Truncate(c * PcmPos, SampleDen)

\* the stages after construction: no note has gone through the filter, the two
\* distortion units are new, no sample was written (calls counts the
\* setDistortion calls, amount is the last amount passed)
NoDsp ==
    [filter |-> [decayTime |-> 0, decay |-> 0, duration |-> 0, slide |-> FALSE,
                 accent |-> FALSE, notes |-> 0],
     asym |-> NewAsymmetric, sig |-> NewSigmoid, calls |-> 0, amount |-> 0,
     wav |-> [sample |-> 0, written |-> 0, count |-> 0]]

\* History of the calls on the pattern store:
\*   op       the last call
\*   ops      the number of calls that change the chain, tracks or clipboard
\*   noteOps  the number of note and drum edits
\*   len      blocks.length before the last call
\*   filled   the number of notes and drum ids in the chain before the last call
\*   copied   a copyToClipboard has returned true
\*   snap     the pattern of the copied block when it last did
NoHist ==
    [op |-> "none", ops |-> 0, noteOps |-> 0, len |-> 0, filled |-> 0,
     copied |-> FALSE, snap |-> NoClipboard]

-----------------------------------------------------------------------------
(* Initial state: the objects as their constructors leave them *)

Init ==
    /\ ctx = "none"
    /\ clock = 0
    /\ clockWorker = "none"
    /\ workerTimer = FALSE
    /\ toWorker = << >>
    /\ pendingTicks = 0
    /\ isPlaying = FALSE
    /\ bpm = InitialBpm
    /\ currentPlayStep = 0
    /\ currentPlayBlock = 0
    /\ editingBlock = 0
    /\ nextNoteTime = 0
    /\ visualQueue = << >>
    /\ blocks = AddBlock(<< >>)
    /\ clipboard = NoClipboard
    /\ bassSynths = << >>
    /\ heap = << >>
    /\ drumInst = [live |-> [masterVolume |-> "default"]]
    /\ hung = FALSE
    /\ edits = MaxEdits
    /\ run = NoRun
    /\ render = [count |-> 0, wasPlaying |-> FALSE, status |-> "none",
                 events |-> << >>, blocks |-> << >>, bpm |-> 0, synths |-> << >>,
                 gate |-> 0, steps |-> 0, duration |-> 0, reps |-> 0]
    /\ tm = TmOfBlocks(blocks, Len(blocks))
    /\ ret = "undefined"
    /\ hist = NoHist
    /\ ui = NoUi
    /\ dsp = NoDsp

-----------------------------------------------------------------------------
(* Transport *)

\* this.ctx.currentTime, without the latency
StartNow(now) == now

\* startPlayback: this.ctx.currentTime + 0.1
StartTime(now) == Add(now, StartLatency)

\* the history flags after a handler that left bpm b2, blocks bs2 and voices ids2
Touched(r, b2, bs2, ids2) ==
    [r EXCEPT !.bpmFixed = @ /\ b2 = bpm,
              !.patFixed = @ /\ bs2 = blocks /\ ids2 = bassSynths]

\* toggleTransport() while stopped: startPlayback().  init() runs when there is
\* no context yet; when the context cannot be created init() only logs, and
\* reading this.ctx.currentTime then raises after the first three assignments.
StartPlayback ==
    /\ ~hung /\ ~isPlaying
    /\ run.starts < MaxStarts
    /\ Len(toWorker) < MaxWorkerQueue
    /\ \E available \in (IF ctx = "none" THEN BOOLEAN ELSE {TRUE}) :
         IF available
         THEN LET st0 == [blocks |-> blocks, synths |-> bassSynths, heap |-> heap]
                  st == IF ctx = "none" /\ Len(bassSynths) = 0
                        THEN AddBassSynth(st0, "bass-1") ELSE st0
              IN /\ ctx' = "running"
                 /\ clockWorker' = "created"
                 /\ blocks' = st.blocks
                 /\ bassSynths' = st.synths
                 /\ heap' = st.heap
                 /\ isPlaying' = TRUE
                 /\ currentPlayStep' = 0
                 /\ currentPlayBlock' = editingBlock
                 /\ nextNoteTime' = StartTime(clock)
                 /\ visualQueue' = << >>
                 /\ toWorker' = Append(toWorker, "start")
                 /\ run' = [starts |-> run.starts + 1, t0 |-> StartTime(clock),
                            startBlock |-> editingBlock, bpmFixed |-> TRUE,
                            patFixed |-> TRUE, log |-> << >>, advances |-> 0,
                            throws |-> 0, throwAt |-> 0]
         ELSE /\ isPlaying' = TRUE
              /\ currentPlayStep' = 0
              /\ currentPlayBlock' = editingBlock
              /\ run' = [run EXCEPT !.starts = @ + 1]
              /\ UNCHANGED << ctx, clockWorker, blocks, bassSynths, heap,
                              nextNoteTime, visualQueue, toWorker >>
    /\ UNCHANGED << clock, workerTimer, pendingTicks, bpm, editingBlock,
                    clipboard, drumInst, hung, edits, render >>
    /\ UNCHANGED << storeVars, uiVars, dspVars >>

\* stopPlayback() that posts nothing to the clock worker
PostNothing(q) == q

\* stopPlayback(): the message goes to the worker if there is one
PostStop(q) == IF clockWorker = "none" THEN q ELSE Append(q, "stop")

\* toggleTransport() while playing: stopPlayback()
StopPlayback ==
    /\ ~hung /\ isPlaying
    /\ Len(toWorker) < MaxWorkerQueue
    /\ isPlaying' = FALSE
    /\ toWorker' = PostStop(toWorker)
    /\ UNCHANGED << ctx, clock, clockWorker, workerTimer, pendingTicks, bpm,
                    currentPlayStep, currentPlayBlock, editingBlock,
                    nextNoteTime, visualQueue, blocks, clipboard, bassSynths,
                    heap, drumInst, hung, edits, run, render >>
    /\ ui' = HighlightPlayingStep(ui, 0 - 1, editingBlock < Len(blocks))
    /\ UNCHANGED << storeVars, dspVars >>

-----------------------------------------------------------------------------
(* The clock worker and the audio clock *)

\* the worker handles the oldest message: "start" arms its interval timer,
\* "stop" clears it
WorkerRecv ==
    /\ Len(toWorker) > 0
    /\ workerTimer' = (Head(toWorker) = "start")
    /\ toWorker' = Tail(toWorker)
    /\ UNCHANGED << ctx, clock, clockWorker, pendingTicks, isPlaying, bpm,
                    currentPlayStep, currentPlayBlock, editingBlock,
                    nextNoteTime, visualQueue, blocks, clipboard, bassSynths,
                    heap, drumInst, hung, edits, run, render >>
    /\ UNCHANGED << storeVars, uiVars, dspVars >>

\* the worker's timer fires: it posts "tick"
WorkerTimerFire ==
    /\ workerTimer
    /\ pendingTicks < MaxPendingTicks
    /\ pendingTicks' = pendingTicks + 1
    /\ UNCHANGED << ctx, clock, clockWorker, workerTimer, toWorker, isPlaying,
                    bpm, currentPlayStep, currentPlayBlock, editingBlock,
                    nextNoteTime, visualQueue, blocks, clipboard, bassSynths,
                    heap, drumInst, hung, edits, run, render >>
    /\ UNCHANGED << storeVars, uiVars, dspVars >>

\* clockWorker.onmessage for a "tick": this.scheduler()
TickDeliver ==
    /\ ~hung
    /\ pendingTicks > 0
    /\ Len(run.log) < MaxDispatch
    /\ pendingTicks' = pendingTicks - 1
    /\ LET s == Scheduler([step |-> currentPlayStep, block |-> currentPlayBlock,
                           nnt |-> nextNoteTime, heap |-> heap,
                           vq |-> visualQueue, run |-> run, status |-> "run"],
                          clock, bpm, blocks, bassSynths, LoopFuel)
       IN IF s.status = "hung"
          THEN /\ hung' = TRUE
               /\ UNCHANGED << currentPlayStep, currentPlayBlock, nextNoteTime,
                               heap, visualQueue, run >>
          ELSE /\ currentPlayStep' = s.step
               /\ currentPlayBlock' = s.block
               /\ nextNoteTime' = s.nnt
               /\ heap' = s.heap
               /\ visualQueue' = s.vq
               /\ run' = s.run
               /\ UNCHANGED hung
    /\ UNCHANGED << ctx, clock, clockWorker, workerTimer, toWorker, isPlaying,
                    bpm, editingBlock, blocks, clipboard, bassSynths, drumInst,
                    edits, render >>
    /\ UNCHANGED << storeVars, uiVars, dspVars >>

\* the audio clock advances
ClockAdvance ==
    /\ ctx = "running" /\ ~hung
    /\ \E d \in ClockSteps :
         /\ clock + d <= MaxClock
         /\ clock' = clock + d
    /\ UNCHANGED << ctx, clockWorker, workerTimer, toWorker, pendingTicks,
                    isPlaying, bpm, currentPlayStep, currentPlayBlock,
                    editingBlock, nextNoteTime, visualQueue, blocks, clipboard,
                    bassSynths, heap, drumInst, hung, edits, run, render >>
    /\ UNCHANGED << storeVars, uiVars, dspVars >>

-----------------------------------------------------------------------------
(* UI handlers *)

\* bpm.onchange: AppState.bpm = e.target.value
BpmOnChange ==
    /\ ~hung /\ edits > 0
    /\ \E v \in BpmInputs :
         /\ bpm' = v
         /\ run' = Touched(run, v, blocks, bassSynths)
    /\ edits' = edits - 1
    /\ UNCHANGED << ctx, clock, clockWorker, workerTimer, toWorker,
                    pendingTicks, isPlaying, currentPlayStep, currentPlayBlock,
                    editingBlock, nextNoteTime, visualQueue, blocks, clipboard,
                    bassSynths, heap, drumInst, hung, render >>
    /\ UNCHANGED << storeVars, uiVars, dspVars >>

\* btn-load-csv with the text file in the area: importFromCSV, then, when it
\* returned true, syncWithMatrix and fullRefresh; ret is what importFromCSV
\* returned
LoadCsvOf(file) ==
    /\ ~hung /\ edits > 0
    /\ LET r == ImportFromCSV([bpm |-> bpm, blocks |-> blocks,
                               synths |-> bassSynths, heap |-> heap], file)
           st == IF r.ok THEN SyncWithMatrix(r.st) ELSE r.st
       IN /\ bpm' = st.bpm
          /\ blocks' = st.blocks
          /\ bassSynths' = st.synths
          /\ heap' = st.heap
          /\ editingBlock' = IF r.ok THEN 0 ELSE editingBlock
          /\ run' = Touched(run, st.bpm, st.blocks, st.synths)
          /\ ret' = IF r.ok THEN "true" ELSE "false"
          /\ ui' = IF r.ok THEN Render(ui) ELSE ui
    /\ hist' = [hist EXCEPT !.op = "importFromCSV"]
    /\ edits' = edits - 1
    /\ UNCHANGED << ctx, clock, clockWorker, workerTimer, toWorker,
                    pendingTicks, isPlaying, currentPlayStep, currentPlayBlock,
                    nextNoteTime, visualQueue, clipboard, drumInst, hung,
                    render, tm, dsp >>

\* btn-load-csv on a text typed or pasted into the area
LoadCsv == \E file \in CsvFiles : LoadCsvOf(file)

\* btn-gen-csv, which writes exportToCSV() into the area, then btn-load-csv
GenLoadCsv ==
    LoadCsvOf(ExportToCSV([bpm |-> bpm, blocks |-> blocks,
                           synths |-> bassSynths, heap |-> heap]))

\* btn-add-block: addBlock(), goToBlock(blocks.length - 1)
AddBlockClick ==
    /\ ~hung /\ edits > 0
    /\ Len(blocks) < MaxBlocks
    /\ blocks' = AddBlock(blocks)
    /\ editingBlock' = Len(blocks)
    /\ run' = Touched(run, bpm, AddBlock(blocks), bassSynths)
    /\ edits' = edits - 1
    /\ UNCHANGED << ctx, clock, clockWorker, workerTimer, toWorker,
                    pendingTicks, isPlaying, bpm, currentPlayStep,
                    currentPlayBlock, nextNoteTime, visualQueue, clipboard,
                    bassSynths, heap, drumInst, hung, render >>
    /\ ui' = Render(ui)
    /\ UNCHANGED << storeVars, dspVars >>

\* btn-del-block, confirmed: removeBlock(editingBlock), fullRefresh()
DelBlockClick ==
    /\ ~hung /\ edits > 0
    /\ blocks' = RemoveBlock(blocks, editingBlock)
    /\ editingBlock' = 0
    /\ run' = Touched(run, bpm, RemoveBlock(blocks, editingBlock), bassSynths)
    /\ edits' = edits - 1
    /\ UNCHANGED << ctx, clock, clockWorker, workerTimer, toWorker,
                    pendingTicks, isPlaying, bpm, currentPlayStep,
                    currentPlayBlock, nextNoteTime, visualQueue, clipboard,
                    bassSynths, heap, drumInst, hung, render >>
    /\ ui' = Render(ui)
    /\ UNCHANGED << storeVars, dspVars >>

\* a click on block i of the track bar: goToBlock(i)
GoToBlock ==
    /\ ~hung
    /\ \E i \in 0..(Len(blocks) - 1) :
         /\ i # editingBlock
         /\ editingBlock' = i
    /\ UNCHANGED << ctx, clock, clockWorker, workerTimer, toWorker,
                    pendingTicks, isPlaying, bpm, currentPlayStep,
                    currentPlayBlock, nextNoteTime, visualQueue, blocks,
                    clipboard, bassSynths, heap, drumInst, hung, edits, run,
                    render >>
    /\ ui' = Render(ui)
    /\ UNCHANGED << storeVars, dspVars >>

\* btn-mem-copy: copyToClipboard(editingBlock)
CopyClick ==
    /\ ~hung
    /\ clipboard' = CopyToClipboard(blocks, clipboard, editingBlock)
    /\ clipboard' # clipboard
    /\ UNCHANGED << ctx, clock, clockWorker, workerTimer, toWorker,
                    pendingTicks, isPlaying, bpm, currentPlayStep,
                    currentPlayBlock, editingBlock, nextNoteTime, visualQueue,
                    blocks, bassSynths, heap, drumInst, hung, edits, run,
                    render >>
    /\ UNCHANGED << storeVars, uiVars, dspVars >>

\* btn-mem-paste: pasteFromClipboard(editingBlock), then fullRefresh() if it pasted
PasteClick ==
    /\ ~hung /\ edits > 0
    /\ Len(blocks) < MaxBlocks
    /\ clipboard # NoClipboard
    /\ blocks' = PasteFromClipboard(blocks, clipboard, editingBlock)
    /\ editingBlock' = 0
    /\ run' = Touched(run, bpm, PasteFromClipboard(blocks, clipboard, editingBlock),
                      bassSynths)
    /\ edits' = edits - 1
    /\ UNCHANGED << ctx, clock, clockWorker, workerTimer, toWorker,
                    pendingTicks, isPlaying, bpm, currentPlayStep,
                    currentPlayBlock, nextNoteTime, visualQueue, clipboard,
                    bassSynths, heap, drumInst, hung, render >>
    /\ ui' = Render(ui)
    /\ UNCHANGED << storeVars, dspVars >>

\* removeSynth(id) for the id of a live voice
RemoveSynthCall ==
    /\ ~hung /\ edits > 0
    /\ \E i \in 1..Len(bassSynths) :
         LET id == bassSynths[i]
             ids == SelectSeq(bassSynths, LAMBDA x : x # id)
         IN /\ bassSynths' = ids
            /\ heap' = [h \in {LiveHandle(ids[j]) : j \in 1..Len(ids)} |-> heap[h]]
            /\ blocks' = RemoveTrack(blocks, id)
            /\ run' = Touched(run, bpm, RemoveTrack(blocks, id), ids)
    /\ edits' = edits - 1
    /\ UNCHANGED << ctx, clock, clockWorker, workerTimer, toWorker,
                    pendingTicks, isPlaying, bpm, currentPlayStep,
                    currentPlayBlock, editingBlock, nextNoteTime, visualQueue,
                    clipboard, drumInst, hung, render >>
    /\ UNCHANGED << storeVars, uiVars, dspVars >>

-----------------------------------------------------------------------------
(* Offline render *)

\* AppState.exportReps
ExportReps == 1

\* renderAudio: the margin of 2.0 s added to the duration
RenderMargin == 23200

\* offBassSynths: the array of the voices built for the render
OfflineVoices(ids) == [i \in 1..Len(ids) |-> OfflineHandle(ids[i])]

\* new BassSynth(liveSynth.id); s.params = {...liveSynth.params}, for the
\* voices from the i-th on
RECURSIVE CloneVoices(_, _, _)
CloneVoices(h, ids, i) ==
    IF i > Len(ids) THEN h
    ELSE LET ref == OfflineHandle(ids[i])
             made == [x \in (DOMAIN h) \cup {ref} |-> IF x = ref THEN NewVoice ELSE h[x]]
             seeded == [made EXCEPT ![ref].params = made[LiveHandle(ids[i])].params]
         IN CloneVoices(seeded, ids, i + 1)

\* new DrumSynth(), then the copy of the live settings onto it
CloneDrums(d) ==
    [x \in (DOMAIN d) \cup {"off"} |->
        IF x = "off" THEN [masterVolume |-> d["live"].masterVolume] ELSE d[x]]

\* secPerStep * 0.9
RenderGate(sps) == (sps * 9) \div 10

\* a time that moves on by two steps
RenderSkip(t, sps) == Add(t, 2 * sps)

\* a time cursor that stays where it is
RenderStay(t, sps) == t

\* t += secPerStep
RenderAdvance(t, sps) == Add(t, sps)

\* the play calls of a step with their time offset from the first step
Events(calls, offset) == [i \in 1..Len(calls) |-> [call |-> calls[i], offset |-> offset]]

\* the render loop from global step g on (reps, blocks, steps nested), on
\* s = [heap, t, events]
RECURSIVE RenderLoop(_, _, _, _, _, _)
RenderLoop(s, g, bs, ids, sps, reps) ==
    IF g >= reps * Len(bs) * TotalSteps THEN [s EXCEPT !.ok = TRUE, !.steps = g]
    ELSE LET blk == bs[((g \div TotalSteps) % Len(bs)) + 1]
             step == g % TotalSteps
             data == [tracks |-> blk.tracks, drums |-> blk.drums[step + 1]]
             calls == StepCalls(data, step, OfflineVoices(ids))
             r == RunCalls(calls, 1, s.heap, OfflineVoices(ids), s.t, RenderGate(sps))
             s1 == [s EXCEPT !.heap = r.heap,
                             !.events = @ \o Events(SubSeq(calls, 1, r.made),
                                                    s.t - RenderOffset)]
         IN IF r.threw THEN [s1 EXCEPT !.steps = g + 1]
            ELSE RenderLoop([s1 EXCEPT !.t = RenderAdvance(@, sps)], g + 1, bs, ids, sps,
                            reps)

\* renderAudio() up to the point where the offline context starts rendering,
\* with AppState.exportReps = reps
RenderAudioOf(reps) ==
    /\ ~hung
    /\ render.count < MaxRenders
    /\ isPlaying => Len(toWorker) < MaxWorkerQueue
    /\ isPlaying' = FALSE
    /\ toWorker' = IF isPlaying THEN PostStop(toWorker) ELSE toWorker
    /\ LET sps == SecPerStep(bpm)
           total == TotalSteps * Len(blocks) * reps
           contextOk == /\ ~IsNaN(sps) /\ sps # PosInf
                        /\ total * sps + RenderMargin > 0
           s == IF contextOk
                THEN RenderLoop([heap |-> CloneVoices(heap, bassSynths, 1),
                                 t |-> RenderOffset, events |-> << >>, ok |-> FALSE,
                                 steps |-> 0],
                                0, blocks, bassSynths, sps, reps)
                ELSE [heap |-> heap, t |-> RenderOffset, events |-> << >>, ok |-> FALSE,
                      steps |-> 0]
           d == IF contextOk THEN CloneDrums(drumInst) ELSE drumInst
       IN /\ heap' = [x \in DOMAIN heap |-> s.heap[x]]
          /\ drumInst' = [x \in DOMAIN drumInst |-> d[x]]
          /\ render' = [count |-> render.count + 1, wasPlaying |-> isPlaying,
                        status |-> IF s.ok THEN "ok" ELSE "failed",
                        events |-> s.events, blocks |-> blocks, bpm |-> bpm,
                        synths |-> bassSynths,
                        gate |-> IF contextOk THEN RenderGate(sps) ELSE 0,
                        steps |-> s.steps,
                        duration |-> IF contextOk THEN total * sps + RenderMargin ELSE 0,
                        reps |-> reps]
    /\ UNCHANGED << ctx, clock, clockWorker, workerTimer, pendingTicks, bpm,
                    currentPlayStep, currentPlayBlock, editingBlock,
                    nextNoteTime, visualQueue, blocks, clipboard, bassSynths,
                    hung, edits, run >>
    /\ UNCHANGED << storeVars, uiVars, dspVars >>

\* renderAudio() with exportReps as it is at the start
RenderAudio == RenderAudioOf(ExportReps)

\* the values of the rep buttons: AppState.exportReps = parseInt(btn.dataset.rep)
RepInputs == { 1, 2 }

\* a rep button, then renderAudio()
RenderAny == \E reps \in RepInputs : RenderAudioOf(reps)

Next ==
    \/ StartPlayback
    \/ StopPlayback
    \/ WorkerRecv
    \/ WorkerTimerFire
    \/ TickDeliver
    \/ ClockAdvance
    \/ BpmOnChange
    \/ LoadCsv
    \/ AddBlockClick
    \/ DelBlockClick
    \/ GoToBlock
    \/ RenderAudio

Spec == Init /\ [][Next]_vars

-----------------------------------------------------------------------------
(* The same program in a session that edits a loaded pattern: blocks are
   deleted, copied and pasted and voices removed while the transport runs at
   the tempo of the file. *)

\* the state after btn-load-csv of FileTwoVoices on the constructed objects
Loaded ==
    SyncWithMatrix(ImportFromCSV([bpm |-> InitialBpm, blocks |-> AddBlock(<< >>),
                                  synths |-> << >>, heap |-> << >>],
                                 FileTwoVoices).st)

InitEdit ==
    /\ ctx = "none"
    /\ clock = 0
    /\ clockWorker = "none"
    /\ workerTimer = FALSE
    /\ toWorker = << >>
    /\ pendingTicks = 0
    /\ isPlaying = FALSE
    /\ bpm = Loaded.bpm
    /\ currentPlayStep = 0
    /\ currentPlayBlock = 0
    /\ editingBlock = 0
    /\ nextNoteTime = 0
    /\ visualQueue = << >>
    /\ blocks = Loaded.blocks
    /\ clipboard = NoClipboard
    /\ bassSynths = Loaded.synths
    /\ heap = Loaded.heap
    /\ drumInst = [live |-> [masterVolume |-> "default"]]
    /\ hung = FALSE
    /\ edits = MaxPatternEdits
    /\ run = NoRun
    /\ render = [count |-> 0, wasPlaying |-> FALSE, status |-> "none",
                 events |-> << >>, blocks |-> << >>, bpm |-> 0, synths |-> << >>,
                 gate |-> 0, steps |-> 0, duration |-> 0, reps |-> 0]
    /\ tm = TmOfBlocks(blocks, Len(blocks))
    /\ ret = "undefined"
    /\ hist = NoHist
    /\ ui = NoUi
    /\ dsp = NoDsp

NextEdit ==
    \/ StartPlayback
    \/ WorkerRecv
    \/ WorkerTimerFire
    \/ TickDeliver
    \/ ClockAdvance
    \/ DelBlockClick
    \/ GoToBlock
    \/ CopyClick
    \/ PasteClick
    \/ RemoveSynthCall

SpecEdit == InitEdit /\ [][NextEdit]_vars

-----------------------------------------------------------------------------
(* The pattern store on its own: the calls of its interface and the note and
   drum edits of the editor, on the object graph tm.  The engine is left as
   it was constructed or loaded. *)

MaxStoreOps == 3
MaxNoteOps == 1
MaxStoreBlocks == 3

\* no element of this.blocks is undefined (the calls are followed up to the
\* first that leaves one: after it forEach raises on the undefined element)
Intact(t) == \A i \in 1..Len(t.blocks) : t.blocks[i] # 0

\* the block indices tried: the valid ones, -1 and blocks.length
IdxInputs == (0 - 1)..Len(tm.blocks)
DirInputs == { 0 - 1, 1 }
TrackIds == { "bass-1", "bass-2" }

\* the number of notes and drum ids a pattern holds
RECURSIVE SumSeq(_)
SumSeq(q) == IF q = << >> THEN 0 ELSE Head(q) + SumSeq(Tail(q))
Filled(b) ==
    SumSeq([i \in 1..Len(b.tracks) |->
               Cardinality({s \in 1..Len(b.tracks[i].cells) : b.tracks[i].cells[s] # Null})])
    + SumSeq([s \in 1..Len(b.drums) |-> Len(b.drums[s])])
FilledChain(t) == SumSeq([i \in 1..Len(t.blocks) |-> Filled(BlockValue(t.mem, t.blocks[i]))])

\* a call on the store with result r = [tm, ret]
StoreCall(op, r) ==
    /\ Intact(tm)
    /\ hist.ops < MaxStoreOps
    /\ Len(r.tm.blocks) <= MaxStoreBlocks
    /\ tm' = r.tm
    /\ ret' = r.ret
    /\ hist' = [hist EXCEPT !.op = op, !.ops = @ + 1, !.len = Len(tm.blocks),
                            !.filled = FilledChain(tm)]
    /\ UNCHANGED << engineVars, uiVars, dspVars >>

AddBlockCall == StoreCall("addBlock", TmAddBlock(tm))

DuplicateBlockCall(idx) == StoreCall("duplicateBlock", TmDuplicateBlock(tm, idx))

CopyToClipboardCall(idx) ==
    LET r == TmCopyToClipboard(tm, idx)
    IN /\ Intact(tm)
       /\ hist.ops < MaxStoreOps
       /\ tm' = r.tm
       /\ ret' = r.ret
       /\ hist' = [hist EXCEPT !.op = "copyToClipboard", !.ops = @ + 1,
                               !.len = Len(tm.blocks), !.filled = FilledChain(tm),
                               !.copied = @ \/ r.ret = "true",
                               !.snap = IF r.ret = "true"
                                        THEN BlockValue(tm.mem, BlockAt(tm, idx)) ELSE @]
       /\ UNCHANGED << engineVars, uiVars, dspVars >>

PasteFromClipboardCall(idx) ==
    StoreCall("pasteFromClipboard", TmPasteFromClipboard(tm, idx))

RemoveBlockCall(idx) == StoreCall("removeBlock", TmRemoveBlock(tm, idx))

MoveBlockCall(idx, dir) == StoreCall("moveBlock", TmMoveBlock(tm, idx, dir))

ClearBlockCall(idx) == StoreCall("clearBlock", TmClearBlock(tm, idx))

RegisterTrackCall(id) == StoreCall("registerTrack", TmRegisterTrack(tm, id))

RemoveTrackCall(id) == StoreCall("removeTrack", TmRemoveTrack(tm, id))

\* an edit of the editor on the block at index b, with result t
NoteEdit(op, b, t) ==
    /\ Intact(tm)
    /\ hist.noteOps < MaxNoteOps
    /\ tm' = t
    /\ ret' = "undefined"
    /\ hist' = [hist EXCEPT !.op = op, !.noteOps = @ + 1, !.len = Len(tm.blocks),
                            !.filled = FilledChain(tm)]
    /\ UNCHANGED << engineVars, uiVars, dspVars >>

PlaceNote(b, id, step) == NoteEdit("placeNote", b, TmPlaceNote(tm, b, id, step, "C", 3))

DeleteNote(b, id, step) ==
    /\ TrackArray(tm, b, id) # 0
    /\ NoteEdit("deleteNote", b, TmDeleteNote(tm, b, id, step))

ToggleNoteMod(b, id, step, prop) ==
    /\ TrackArray(tm, b, id) # 0
    /\ NoteEdit("toggleNoteMod", b, TmToggleNoteMod(tm, b, id, step, prop))

ToggleDrum(b, step, id) == NoteEdit("toggleDrum", b, TmToggleDrum(tm, b, step, id))

\* an edit of the block at index b
EditOf(b) ==
    \E step \in 0..(TotalSteps - 1) :
        \/ \E id \in TrackIds :
              \/ PlaceNote(b, id, step)
              \/ DeleteNote(b, id, step)
              \/ \E prop \in { "slide", "accent" } : ToggleNoteMod(b, id, step, prop)
        \/ ToggleDrum(b, step, "kick")

DuplicateBlockAny == \E idx \in IdxInputs : DuplicateBlockCall(idx)
CopyToClipboardAny == \E idx \in IdxInputs : CopyToClipboardCall(idx)
PasteFromClipboardAny == \E idx \in IdxInputs : PasteFromClipboardCall(idx)
RemoveBlockAny == \E idx \in IdxInputs : RemoveBlockCall(idx)
MoveBlockAny == \E idx \in IdxInputs : \E dir \in DirInputs : MoveBlockCall(idx, dir)
ClearBlockAny == \E idx \in IdxInputs : ClearBlockCall(idx)
RegisterTrackAny == \E id \in TrackIds : RegisterTrackCall(id)
RemoveTrackAny == \E id \in TrackIds : RemoveTrackCall(id)
EditAny == Intact(tm) /\ \E b \in 0..(Len(tm.blocks) - 1) : EditOf(b)

InitStore == Init \/ InitEdit

NextStore ==
    \/ AddBlockCall
    \/ DuplicateBlockAny
    \/ CopyToClipboardAny
    \/ PasteFromClipboardAny
    \/ RemoveBlockAny
    \/ MoveBlockAny
    \/ ClearBlockAny
    \/ RegisterTrackAny
    \/ RemoveTrackAny
    \/ EditAny

SpecStore == InitStore /\ [][NextStore]_vars

-----------------------------------------------------------------------------
(* The same program in a session that works with files: the tempo is typed,
   CSV text is loaded, the pattern is exported as text and loaded again, and
   rendered to audio for a number of repetitions. *)

\* the number of edits followed in such a session
MaxCsvEdits == 3

\* "" : no text at all
FileEmpty == [bpm |-> NaNv, total |-> NaNv, rows |-> << >>]

\* "120-<S>-1" : a header and nothing else
FileHeaderOnly == [bpm |-> 120, total |-> TotalSteps, rows |-> << >>]

\* "fast-<S>-1" / "bass-2:,<A2>,0.." : a tempo that is not a number
FileBadBpm ==
    [bpm |-> NaNv, total |-> TotalSteps,
     rows |-> << [kind |-> "track", id |-> "bass-2", pVals |-> NoParams,
                  cells |-> [g \in 1..TotalSteps |-> IF g = 1 THEN NoteA ELSE << >>]] >>]

\* "120-all-1" / "bass-2:,<A2>,0.." : a step count that is not a number
FileBadTotal ==
    [bpm |-> 120, total |-> NaNv,
     rows |-> << [kind |-> "track", id |-> "bass-2", pVals |-> NoParams,
                  cells |-> [g \in 1..TotalSteps |-> IF g = 1 THEN NoteA ELSE << >>]] >>]

BadMetaFiles == { FileEmpty, FileHeaderOnly, FileBadBpm, FileBadTotal }

\* btn-load-csv on a text whose metadata cannot be read
LoadBadCsv == \E file \in BadMetaFiles : LoadCsvOf(file)

InitCsv ==
    /\ ctx = "none"
    /\ clock = 0
    /\ clockWorker = "none"
    /\ workerTimer = FALSE
    /\ toWorker = << >>
    /\ pendingTicks = 0
    /\ isPlaying = FALSE
    /\ bpm = InitialBpm
    /\ currentPlayStep = 0
    /\ currentPlayBlock = 0
    /\ editingBlock = 0
    /\ nextNoteTime = 0
    /\ visualQueue = << >>
    /\ blocks = AddBlock(<< >>)
    /\ clipboard = NoClipboard
    /\ bassSynths = << >>
    /\ heap = << >>
    /\ drumInst = [live |-> [masterVolume |-> "default"]]
    /\ hung = FALSE
    /\ edits = MaxCsvEdits
    /\ run = NoRun
    /\ render = [count |-> 0, wasPlaying |-> FALSE, status |-> "none",
                 events |-> << >>, blocks |-> << >>, bpm |-> 0, synths |-> << >>,
                 gate |-> 0, steps |-> 0, duration |-> 0, reps |-> 0]
    /\ tm = TmOfBlocks(blocks, Len(blocks))
    /\ ret = "undefined"
    /\ hist = NoHist
    /\ ui = NoUi
    /\ dsp = NoDsp

NextCsv ==
    \/ StartPlayback
    \/ BpmOnChange
    \/ LoadCsv
    \/ LoadBadCsv
    \/ GenLoadCsv
    \/ AddBlockClick
    \/ CopyClick
    \/ RenderAny

SpecCsv == InitCsv /\ [][NextCsv]_vars

-----------------------------------------------------------------------------
(* The same program in a session that plays a loaded pattern and previews
   notes on its voices while it plays. *)

\* the number of previews followed in such a session
MaxPreviews == 2

\* BassSynth.play: duration = 0.25
DefaultGate == 2900

\* "0-3-1-0": a cell with note index 0
NoteDash == << 0, 3, "1", "0" >>

\* "10-2-1-0": A2 with slide
NoteASlide == << 10, 2, "1", "0" >>

\* "120-<S>-2" / "bass-1:,<A2 slide>,<C3 slide>,.." / "bass-2:,<index 0, slide>,0.."
FileGlide ==
    [bpm |-> 120, total |-> TotalSteps,
     rows |-> << [kind |-> "track", id |-> "bass-1", pVals |-> NoParams,
                  cells |-> [g \in 1..TotalSteps |->
                               IF g = 1 THEN NoteASlide
                               ELSE IF g = 2 THEN NoteCSlide ELSE << >>]],
                [kind |-> "track", id |-> "bass-2", pVals |-> NoParams,
                 cells |-> [g \in 1..TotalSteps |-> IF g = 1 THEN NoteDash ELSE << >>]] >>]

\* the state after btn-load-csv of FileGlide on the constructed objects
LoadedGlide ==
    SyncWithMatrix(ImportFromCSV([bpm |-> InitialBpm, blocks |-> AddBlock(<< >>),
                                  synths |-> << >>, heap |-> << >>],
                                 FileGlide).st)

\* the keys of the piano and a name that is no pitch class; currentOctave
PreviewNotes == { "A", "H" }
PreviewOctaves == { 4, 5 }

\* previewNote(synthId, note, octave): s.play(note, octave, this.ctx.currentTime)
\* on the voice of that id; reading currentTime raises when there is no context
PreviewNote(id, note, octave) ==
    /\ ~hung /\ edits > 0
    /\ heap' = IF \E i \in 1..Len(bassSynths) : bassSynths[i] = id
               THEN IF ctx = "none" THEN heap
                    ELSE [heap EXCEPT ![LiveHandle(id)] =
                            BassPlay(@, note, octave, clock, DefaultGate, FALSE).v]
               ELSE heap
    /\ edits' = edits - 1
    /\ UNCHANGED << ctx, clock, clockWorker, workerTimer, toWorker,
                    pendingTicks, isPlaying, bpm, currentPlayStep,
                    currentPlayBlock, editingBlock, nextNoteTime, visualQueue,
                    blocks, clipboard, bassSynths, drumInst, hung, run, render >>
    /\ UNCHANGED << storeVars, uiVars, dspVars >>

PreviewAny ==
    \E id \in {"bass-1", "bass-2"} : \E note \in PreviewNotes : \E octave \in PreviewOctaves :
        PreviewNote(id, note, octave)

InitVoice ==
    /\ ctx = "none"
    /\ clock = 0
    /\ clockWorker = "none"
    /\ workerTimer = FALSE
    /\ toWorker = << >>
    /\ pendingTicks = 0
    /\ isPlaying = FALSE
    /\ bpm = LoadedGlide.bpm
    /\ currentPlayStep = 0
    /\ currentPlayBlock = 0
    /\ editingBlock = 0
    /\ nextNoteTime = 0
    /\ visualQueue = << >>
    /\ blocks = LoadedGlide.blocks
    /\ clipboard = NoClipboard
    /\ bassSynths = LoadedGlide.synths
    /\ heap = LoadedGlide.heap
    /\ drumInst = [live |-> [masterVolume |-> "default"]]
    /\ hung = FALSE
    /\ edits = MaxPreviews
    /\ run = NoRun
    /\ render = [count |-> 0, wasPlaying |-> FALSE, status |-> "none",
                 events |-> << >>, blocks |-> << >>, bpm |-> 0, synths |-> << >>,
                 gate |-> 0, steps |-> 0, duration |-> 0, reps |-> 0]
    /\ tm = TmOfBlocks(blocks, Len(blocks))
    /\ ret = "undefined"
    /\ hist = NoHist
    /\ ui = NoUi
    /\ dsp = NoDsp

NextVoice ==
    \/ StartPlayback
    \/ StopPlayback
    \/ WorkerRecv
    \/ WorkerTimerFire
    \/ TickDeliver
    \/ ClockAdvance
    \/ PreviewAny

SpecVoice == InitVoice /\ [][NextVoice]_vars

-----------------------------------------------------------------------------
(* The same program as its interface drives it: the transport button, the
   block buttons of the track bar, the visualizer switch, and the frame
   callback that consumes the queued visual events. *)

\* the number of edits followed in such a session, the starts, the steps
\* dispatched and the time followed
MaxUiEdits == 2
MaxUiStarts == 1
MaxUiDispatch == 3
MaxUiClock == 3480

\* a <= b on JavaScript numbers: false as soon as one side is NaN
Le(a, b) == ~IsNaN(a) /\ ~IsNaN(b) /\ a <= b

\* moveBlock(idx, dir) on a chain that has a block at idx: the blocks at idx
\* and idx + dir change places when idx + dir is an index of the chain
MoveBlock(bs, idx, dir) ==
    LET t == idx + dir
    IN IF t < 0 \/ t >= Len(bs) THEN [ok |-> FALSE, blocks |-> bs]
       ELSE [ok |-> TRUE,
             blocks |-> [i \in 1..Len(bs) |->
                           IF i = t + 1 THEN bs[idx + 1]
                           ELSE IF i = idx + 1 THEN bs[t + 1] ELSE bs[i]]]

\* the body of renderLoop's while loop, for every queued event that is due at
\* now: s = [vq, ui, editingBlock], n = blocks.length
RECURSIVE DrawEvents(_, _, _)
DrawEvents(s, now, n) ==
    IF Len(s.vq) = 0 \/ ~Le(Head(s.vq).time, now) THEN s
    ELSE LET ev == Head(s.vq)
             follows == s.ui.followPlayback /\ ev.block # s.editingBlock
             eb == IF follows THEN ev.block ELSE s.editingBlock
             u1 == IF follows THEN Render(s.ui) ELSE s.ui
             u2 == IF ev.block = eb
                   THEN HighlightPlayingStep(u1, ev.step, eb < n)
                   ELSE HighlightPlayingStep(u1, 0 - 1, eb < n)
         IN DrawEvents(
              IF s.ui.lastDrawnStep # ev.step
              THEN [vq |-> Tail(s.vq), editingBlock |-> eb,
                    ui |-> [u2 EXCEPT !.lastDrawnStep = ev.step]]
              ELSE [s EXCEPT !.vq = Tail(@)],
              now, n)

\* a frame: renderLoop(), when an event of the queue is due
UiRenderLoop ==
    /\ ~hung /\ ctx = "running"
    /\ Len(visualQueue) > 0 /\ Le(Head(visualQueue).time, clock)
    /\ LET s == DrawEvents([vq |-> visualQueue, ui |-> ui,
                            editingBlock |-> editingBlock], clock, Len(blocks))
       IN /\ visualQueue' = s.vq
          /\ ui' = s.ui
          /\ editingBlock' = s.editingBlock
    /\ UNCHANGED << ctx, clock, clockWorker, workerTimer, toWorker,
                    pendingTicks, isPlaying, bpm, currentPlayStep,
                    currentPlayBlock, nextNoteTime, blocks, clipboard,
                    bassSynths, heap, drumInst, hung, edits, run, render >>
    /\ UNCHANGED << storeVars, dspVars >>

\* btn-toggle-visualizer: toggleVisualizerMode()
ToggleVisualizerMode ==
    /\ ~hung
    /\ ui' = [ui EXCEPT !.followPlayback = ~@]
    /\ UNCHANGED << engineVars, storeVars, dspVars >>

\* btn-move-left (dir = -1) and btn-move-right (dir = 1):
\* moveBlock(editingBlock, dir), then goToBlock(editingBlock + dir) if it moved;
\* followed while editingBlock is an index of the chain
MoveClick(dir) ==
    /\ ~hung /\ edits > 0
    /\ editingBlock < Len(blocks)
    /\ LET r == MoveBlock(blocks, editingBlock, dir)
       IN /\ blocks' = r.blocks
          /\ editingBlock' = IF r.ok THEN editingBlock + dir ELSE editingBlock
          /\ ui' = IF r.ok THEN Render(ui) ELSE ui
          /\ run' = Touched(run, bpm, r.blocks, bassSynths)
    /\ edits' = edits - 1
    /\ UNCHANGED << ctx, clock, clockWorker, workerTimer, toWorker,
                    pendingTicks, isPlaying, bpm, currentPlayStep,
                    currentPlayBlock, nextNoteTime, visualQueue, clipboard,
                    bassSynths, heap, drumInst, hung, render >>
    /\ UNCHANGED << storeVars, dspVars >>

MoveLeftClick == MoveClick(0 - 1)
MoveRightClick == MoveClick(1)

\* the state after btn-load-csv of FileTwoBlocks on the constructed objects
LoadedTwoBlocks ==
    SyncWithMatrix(ImportFromCSV([bpm |-> InitialBpm, blocks |-> AddBlock(<< >>),
                                  synths |-> << >>, heap |-> << >>],
                                 FileTwoBlocks).st)

InitUi ==
    /\ ctx = "none"
    /\ clock = 0
    /\ clockWorker = "none"
    /\ workerTimer = FALSE
    /\ toWorker = << >>
    /\ pendingTicks = 0
    /\ isPlaying = FALSE
    /\ bpm = LoadedTwoBlocks.bpm
    /\ currentPlayStep = 0
    /\ currentPlayBlock = 0
    /\ editingBlock = 0
    /\ nextNoteTime = 0
    /\ visualQueue = << >>
    /\ blocks = LoadedTwoBlocks.blocks
    /\ clipboard = NoClipboard
    /\ bassSynths = LoadedTwoBlocks.synths
    /\ heap = LoadedTwoBlocks.heap
    /\ drumInst = [live |-> [masterVolume |-> "default"]]
    /\ hung = FALSE
    /\ edits = MaxUiEdits
    /\ run = NoRun
    /\ render = [count |-> 0, wasPlaying |-> FALSE, status |-> "none",
                 events |-> << >>, blocks |-> << >>, bpm |-> 0, synths |-> << >>,
                 gate |-> 0, steps |-> 0, duration |-> 0, reps |-> 0]
    /\ tm = TmOfBlocks(blocks, Len(blocks))
    /\ ret = "undefined"
    /\ hist = NoHist
    /\ ui = NoUi
    /\ dsp = NoDsp

\* the transport button, the ticks and the clock within the bounds of the session
UiStart == run.starts < MaxUiStarts /\ StartPlayback
UiTick == Len(run.log) < MaxUiDispatch /\ TickDeliver
UiClock == clock < MaxUiClock /\ ClockAdvance

NextUi ==
    \/ UiStart
    \/ StopPlayback
    \/ WorkerRecv
    \/ WorkerTimerFire
    \/ UiTick
    \/ UiClock
    \/ UiRenderLoop
    \/ ToggleVisualizerMode
    \/ AddBlockClick
    \/ DelBlockClick
    \/ GoToBlock
    \/ CopyClick
    \/ PasteClick
    \/ MoveLeftClick
    \/ MoveRightClick

SpecUi == InitUi /\ [][NextUi]_vars

-----------------------------------------------------------------------------
(* The sound-shaping stages on their own: notes go through BassFilter.create,
   amounts are set on a distortion unit of each family, and samples are
   written by bufferToWave. *)

\* the number of setDistortion calls and of samples followed
MaxDistCalls == 3
MaxSamples == 2

\* params.decay, the gate lengths of live playback and of a render at 120
\* bpm, the distortion amounts, and the samples in units of 1 / SampleDen
DecayInputs == { 0, 40, 100 }
GateInputs == { LiveGate, 1305 }
AmountInputs == { 0 - 1, 0, 1, 2, 20 }
SampleInputs == { 0 - 8, 0 - 4, 0 - 3, 0 - 2, 0 - 1, 0, 1, 2, 3, 4, 8 }

\* a note goes through the filter: BassFilter.create(ctx, time, params,
\* duration, slide, accent)
FilterCreate ==
    /\ \E decay \in DecayInputs : \E duration \in GateInputs :
       \E slide \in BOOLEAN : \E accent \in BOOLEAN :
         dsp' = [dsp EXCEPT !.filter =
                    [decayTime |-> FilterDecay(SetParam(DefaultParams, "decay", decay),
                                               duration, slide, accent),
                     decay |-> decay, duration |-> duration, slide |-> slide,
                     accent |-> accent, notes |-> 1]]
    /\ UNCHANGED << engineVars, storeVars, uiVars >>

\* setDistortion(amount) on the distortion unit of each family
SetDistortion ==
    /\ dsp.calls < MaxDistCalls
    /\ \E amount \in AmountInputs :
         dsp' = [dsp EXCEPT !.asym = SetDistortionAsymmetric(@, amount),
                            !.sig = SetDistortionSigmoid(@, amount),
                            !.calls = @ + 1, !.amount = amount]
    /\ UNCHANGED << engineVars, storeVars, uiVars >>

\* bufferToWave writes one sample of a channel
WriteSample ==
    /\ dsp.wav.count < MaxSamples
    /\ \E s \in SampleInputs :
         dsp' = [dsp EXCEPT !.wav = [sample |-> s, written |-> Quantize(s),
                                     count |-> @.count + 1]]
    /\ UNCHANGED << engineVars, storeVars, uiVars >>

NextSound == FilterCreate \/ SetDistortion \/ WriteSample

SpecSound == Init /\ [][NextSound]_vars

-----------------------------------------------------------------------------
(* The engine with its scheduling stated: the clock worker handles the
   messages posted to it, its interval timer fires while it is armed, the main
   thread handles the "tick" messages it receives, and the audio clock of a
   running context advances. *)

NextLive ==
    \/ StartPlayback
    \/ StopPlayback
    \/ WorkerRecv
    \/ WorkerTimerFire
    \/ TickDeliver
    \/ ClockAdvance
    \/ BpmOnChange
    \/ LoadCsv

\* what enables TickDeliver: a tick is waiting and the main thread is free
TickEnabled == ~hung /\ pendingTicks > 0 /\ Len(run.log) < MaxDispatch

\* the browser's scheduling: a posted message is delivered, a running timer
\* fires, the audio clock of a running context advances. The last conjunct is
\* the weak fairness of TickDeliver with its enabling condition written out
\* (TickDeliver always takes a tick off the queue, so it changes vars whenever
\* TickEnabled holds).
SpecLive ==
    /\ Init /\ [][NextLive]_vars
    /\ WF_vars(WorkerRecv) /\ WF_vars(WorkerTimerFire)
    /\ WF_vars(ClockAdvance)
    /\ ([]<>(~TickEnabled) \/ []<><<TickDeliver>>_vars)

\* a run that starts by this time has room for its second step before MaxClock
LiveStartBy == 5800

-----------------------------------------------------------------------------
(* Properties *)

\* the cursor k single steps after (0, b0) in a chain of n blocks
RECURSIVE CursorAfter(_, _, _)
CursorAfter(k, b0, n) ==
    IF k = 0 THEN << 0, b0 >>
    ELSE LET c == CursorAfter(k - 1, b0, n)
         IN IF c[1] + 1 < TotalSteps THEN << c[1] + 1, c[2] >>
            ELSE << 0, IF c[2] + 1 >= n THEN 0 ELSE c[2] + 1 >>

\* C1 (look-ahead completeness): with the pattern and bpm held fixed since the
\* start, the (step, block) pairs passed to scheduleNote are, in order, the
\* cursor positions reached from (0, editingBlock at the start) one step at a
\* time: none skipped, none dispatched twice.
C1_LookaheadCompleteness ==
    (run.bpmFixed /\ run.patFixed) =>
        \A i \in 1..Len(run.log) :
            << run.log[i].step, run.log[i].block >>
                = CursorAfter(i - 1, run.startBlock, Len(blocks))

\* the same for the runs in which no play call raised
C1_CompleteWhenNothingRaises ==
    (run.bpmFixed /\ run.patFixed /\ run.throws = 0) =>
        \A i \in 1..Len(run.log) :
            << run.log[i].step, run.log[i].block >>
                = CursorAfter(i - 1, run.startBlock, Len(blocks))

\* C2 as stated (block-chain wraparound): with no edits since the start, after
\* exactly N x S steps the cursor is back at (step 0, block 0).
C2_WrapToBlockZero ==
    (run.patFixed /\ Len(blocks) >= 1 /\ run.advances = Len(blocks) * TotalSteps) =>
        (currentPlayStep = 0 /\ currentPlayBlock = 0)

\* C2 (block-chain wraparound): with no edits since a start at a block e of the
\* chain, after exactly N x S steps dispatched and advanced past the cursor is
\* back at (step 0, block e), and after exactly S of them it is at step 0 of
\* the block that follows e in the cycle: the chain loops as a whole.
C2_WrapToStartBlock ==
    (run.patFixed /\ run.startBlock < Len(blocks)) =>
        /\ (run.advances = Len(blocks) * TotalSteps =>
               (currentPlayStep = 0 /\ currentPlayBlock = run.startBlock))
        /\ (run.advances = TotalSteps =>
               (currentPlayStep = 0
                /\ currentPlayBlock = (run.startBlock + 1) % Len(blocks)))

C2_Witness ==
    /\ run.patFixed /\ Len(blocks) = 2 /\ run.startBlock = 1
    /\ run.advances = Len(blocks) * TotalSteps
    /\ currentPlayBlock = 1

\* C3 (stopping halts dispatch): while the transport is stopped no step is
\* dispatched, whatever tick messages are still in flight.
C3_StopHaltsDispatch ==
    [][(~isPlaying /\ ~isPlaying') => run'.log = run.log]_vars

\* C4 (a bad step never stalls the scheduler): once a play call has raised
\* while step k was dispatched, the cursor has advanced past step k.
C4_BadStepNeverStalls ==
    run.throws > 0 => run.advances > run.throwAt

\* the time of step k after a start at t0, for a finite tempo b
ExpectedTime(t0, k, b) ==
    IF k = 0 THEN t0
    ELSE IF b > 0 THEN t0 + k * ((15 * UnitsPerSecond) \div b)
    ELSE t0 - k * ((15 * UnitsPerSecond) \div (0 - b))

\* C5 (step timing): with bpm constant since a start at t0, step k (k = 0, 1,
\* ...) is dispatched with time t0 + k * 60 / bpm / 4, whenever the ticks came;
\* a tempo that is 0 or not a number lets only step 0 be dispatched.
C5_StepTiming ==
    run.bpmFixed =>
        \A i \in 1..Len(run.log) :
            /\ (IsNaN(bpm) \/ bpm = 0) => run.log[i].k = 0
            /\ run.log[i].time = ExpectedTime(run.t0, run.log[i].k, bpm)

\* bpm = 120: step 5 is dispatched at t0 + 0.625 s
C5_Witness ==
    /\ run.bpmFixed /\ bpm = 120
    /\ \E i \in 1..Len(run.log) :
          run.log[i].k = 5 /\ run.log[i].time = run.t0 + 7250

C8_BoundedTick == ~hung


\* the blocks's step as the claim reads it: the drums of the step, then the
\* notes of the tracks that have a voice
ExpectedCalls(step, block) ==
    IF block >= Len(blocks) THEN << >>
    ELSE LET blk == blocks[block + 1]
             voiced == SelectSeq(blk.tracks,
                          LAMBDA t : /\ t.cells[step + 1] # Null
                                     /\ \E j \in 1..Len(bassSynths) : bassSynths[j] = t.id)
         IN [i \in 1..Len(blk.drums[step + 1]) |-> DrumCall(blk.drums[step + 1][i])]
            \o [i \in 1..Len(voiced) |-> BassCall(voiced[i].id, voiced[i].cells[step + 1])]

\* C7 (tolerant dispatch): a step dispatched at a block index out of range, or
\* holding a note on a track without a voice, triggers nothing for that block
\* or track and every other drum and track of the step, raises nothing, and
\* the cursor moves to the next position.
C7_TolerantDispatch ==
    [][\A i \in (Len(run.log) + 1)..Len(run'.log) :
          LET e == run'.log[i]
              after == IF i < Len(run'.log)
                       THEN << run'.log[i + 1].step, run'.log[i + 1].block >>
                       ELSE << currentPlayStep', currentPlayBlock' >>
          IN (e.block >= Len(blocks) \/ Len(e.skipped) > 0) =>
                /\ e.calls = ExpectedCalls(e.step, e.block)
                /\ \A j \in 1..Len(e.calls) :
                      \A m \in 1..Len(e.skipped) : e.calls[j].id # e.skipped[m]
                /\ run'.throws = run.throws
                /\ run'.advances > e.k
                /\ after = IF e.step + 1 < TotalSteps THEN << e.step + 1, e.block >>
                           ELSE << 0, IF e.block + 1 >= Len(blocks) THEN 0
                                      ELSE e.block + 1 >>]_vars

\* a step at a block out of range and a step with a skipped track next to a
\* played track and drum have both been dispatched, and the cursor moved on
C7_Witness ==
    /\ \E i \in 1..Len(run.log) : run.log[i].block >= run.log[i].n
    /\ \E i \in 1..Len(run.log) :
          /\ Len(run.log[i].skipped) > 0
          /\ Len(run.log[i].calls) >= 2
          /\ run.advances > run.log[i].k

\* the play calls of the first pass of the live run over the chain, with their
\* time offset from the first step
RECURSIVE LiveEvents(_)
LiveEvents(i) ==
    IF i > Len(run.log) THEN << >>
    ELSE IF run.log[i].k >= Len(blocks) * TotalSteps THEN << >>
    ELSE Events(run.log[i].calls, run.log[i].time - run.t0) \o LiveEvents(i + 1)

\* a render that succeeded and a live run that completed a pass, both of the
\* present pattern, voices and bpm
SamePatternRenderedAndPlayed ==
    /\ render.status = "ok"
    /\ render.blocks = blocks /\ render.bpm = bpm /\ render.synths = bassSynths
    /\ run.bpmFixed /\ run.patFixed
    /\ run.advances >= Len(blocks) * TotalSteps

C10_RenderLeavesLiveData ==
    [][RenderAudio =>
          /\ blocks' = blocks
          /\ clipboard' = clipboard
          /\ bassSynths' = bassSynths
          /\ heap' = heap
          /\ drumInst' = drumInst]_vars

\* a render that played notes on its own voices, after the live voices played
C10_Witness ==
    /\ render.count > 0 /\ Len(render.events) >= 2
    /\ \E i \in 1..Len(render.events) : render.events[i].call.kind = "bass"
    /\ \E i \in 1..Len(bassSynths) : heap[LiveHandle(bassSynths[i])].lastFreq > 0

\* C11 as stated (render and the live playback state): renderAudio leaves
\* isPlaying and the scheduler cursor (currentPlayStep, currentPlayBlock,
\* nextNoteTime) as they were, also when the transport is running.
C11_RenderKeepsTransport ==
    [][RenderAudio =>
          /\ isPlaying' = isPlaying
          /\ currentPlayStep' = currentPlayStep
          /\ currentPlayBlock' = currentPlayBlock
          /\ nextNoteTime' = nextNoteTime]_vars

\* C11 (render and the live playback state): renderAudio leaves the scheduler
\* cursor (currentPlayStep, currentPlayBlock, nextNoteTime) as it was and the
\* transport stopped: a stopped transport is left alone, a running one is
\* stopped first, with "stop" posted to the clock worker.
C11_RenderStopsTransport ==
    [][RenderAudio =>
          /\ currentPlayStep' = currentPlayStep
          /\ currentPlayBlock' = currentPlayBlock
          /\ nextNoteTime' = nextNoteTime
          /\ ~isPlaying'
          /\ ~isPlaying => toWorker' = toWorker
          /\ (isPlaying /\ clockWorker # "none") =>
                 toWorker' = Append(toWorker, "stop")]_vars

\* a render that was invoked while the transport was running, after steps
\* had been dispatched
C11_Witness ==
    /\ render.count > 0 /\ render.wasPlaying
    /\ ~isPlaying /\ run.advances > 0 /\ nextNoteTime > 0

\* the chain positions whose block holds the copied pattern
HoldSnap == { i \in 1..Len(tm.blocks) : BlockValue(tm.mem, tm.blocks[i]) = hist.snap }

\* C12 (deep-copy isolation of the clipboard): once copyToClipboard has
\* returned true, the clipboard holds the pattern of the copied block as it was
\* at copy time after every later call and edit, and the block a later
\* pasteFromClipboard(idx) inserts holds that pattern.
C12_ClipboardIsolation ==
    [][/\ hist'.copied => BlockValue(tm'.mem, tm'.clipboard) = hist'.snap
       /\ \A idx \in IdxInputs :
             (hist.copied /\ PasteFromClipboardCall(idx)) =>
                 /\ ret' = "true"
                 /\ Len(tm'.blocks) = Len(tm.blocks) + 1
                 /\ BlockValue(tm'.mem,
                               tm'.blocks[SpliceStart(idx + 1, Len(tm.blocks)) + 1])
                        = hist.snap]_vars

\* a block with notes was copied, then edited, then the clipboard was pasted:
\* the pasted block holds the copied pattern and the source block no longer does
C12_Witness ==
    /\ hist.copied /\ hist.op = "pasteFromClipboard" /\ ret = "true"
    /\ hist.ops = 2 /\ hist.noteOps = 1
    /\ Len(tm.blocks) = 2
    /\ Cardinality(HoldSnap) = 1
    /\ Filled(hist.snap) > 0

\* the blocks of the chain and the clipboard have no object in common
NoAliasing(t) ==
    /\ \A i, j \in 1..Len(t.blocks) :
          i # j => Owned(t.mem, t.blocks[i]) \cap Owned(t.mem, t.blocks[j]) = {}
    /\ \A i \in 1..Len(t.blocks) :
          Owned(t.mem, t.blocks[i]) \cap Owned(t.mem, t.clipboard) = {}

\* an edit inside the block at index b: a note placed on one of its tracks,
\* a note deleted, a flag toggled, a drum toggled, or the block cleared
EditInside(b) ==
    \/ \E step \in 0..(TotalSteps - 1) :
          \/ \E id \in TrackIds :
                \/ TrackArray(tm, b, id) # 0 /\ PlaceNote(b, id, step)
                \/ DeleteNote(b, id, step)
                \/ \E prop \in { "slide", "accent" } : ToggleNoteMod(b, id, step, prop)
          \/ ToggleDrum(b, step, "kick")
    \/ ClearBlockCall(b)

\* C13 (no aliasing between blocks): after every call on the store no two
\* positions of the chain, and no position and the clipboard, have an object in
\* common (block, tracks object, track array, note, drums array, drum list),
\* and an edit inside one block leaves the pattern of every other block and of
\* the clipboard as it was.
C13_NoAliasing ==
    [][/\ NoAliasing(tm')
       /\ \A b \in 0..(Len(tm.blocks) - 1) :
             (Intact(tm) /\ EditInside(b)) =>
                 /\ \A i \in 1..Len(tm.blocks) :
                       i # b + 1 => BlockValue(tm'.mem, tm'.blocks[i])
                                       = BlockValue(tm.mem, tm.blocks[i])
                 /\ BlockValue(tm'.mem, tm'.clipboard)
                       = BlockValue(tm.mem, tm.clipboard)]_vars

\* the clipboard was pasted twice and a flag of a note of one of the three
\* blocks was toggled: the other two still hold the copied pattern
C13_Witness ==
    /\ hist.copied /\ hist.op = "toggleNoteMod"
    /\ hist.ops = 3 /\ hist.noteOps = 1
    /\ Len(tm.blocks) = 3
    /\ Cardinality(HoldSnap) = 2
    /\ Filled(hist.snap) > 0

\* the pattern b with every note slot and every drum list emptied
Emptied(b) ==
    [tracks |-> [i \in 1..Len(b.tracks) |->
                    [id |-> b.tracks[i].id,
                     cells |-> [s \in 1..Len(b.tracks[i].cells) |-> Null]]],
     drums |-> [s \in 1..Len(b.drums) |-> << >>]]

\* C14 (last-block protection): removeBlock(idx) on a store with exactly one
\* block, for every idx, leaves one block, the same block object, with every
\* note slot null and every drum list empty, and with the track keys it had.
C14_LastBlockCleared ==
    [][\A idx \in IdxInputs :
          (Len(tm.blocks) = 1 /\ RemoveBlockCall(idx)) =>
              /\ Len(tm'.blocks) = 1
              /\ tm'.blocks = tm.blocks
              /\ BlockValue(tm'.mem, tm'.blocks[1])
                    = Emptied(BlockValue(tm.mem, tm.blocks[1]))
              /\ Filled(BlockValue(tm'.mem, tm'.blocks[1])) = 0]_vars

\* removeBlock was called on a store whose only block held notes and drums
C14_Witness ==
    /\ hist.op = "removeBlock" /\ hist.len = 1 /\ hist.filled > 0
    /\ Len(tm.blocks) = 1
    /\ Filled(BlockValue(tm.mem, tm.blocks[1])) = 0
    /\ Len(BlockValue(tm.mem, tm.blocks[1]).tracks) = 2

\* q is p with the elements at positions i and j exchanged
Exchanged(q, p, i, j) ==
    /\ i \in 1..Len(p) /\ j \in 1..Len(p)
    /\ q = [x \in 1..Len(p) |-> IF x = i THEN p[j] ELSE IF x = j THEN p[i] ELSE p[x]]

\* C16 (moveBlock): moveBlock(idx, dir), for every idx and dir, returns false
\* and leaves the chain as it was, or returns true and the chain is the old one
\* with the blocks at idx and idx + dir exchanged.
C16_MoveBlock ==
    [][\A idx \in IdxInputs : \A dir \in DirInputs :
          MoveBlockCall(idx, dir) =>
              \/ ret' = "false" /\ tm'.blocks = tm.blocks
              \/ ret' = "true" /\ Exchanged(tm'.blocks, tm.blocks, idx + 1, idx + dir + 1)]_vars

\* the same for the indices of the chain: 0 <= idx < blocks.length
C16_MoveBlockInRange ==
    [][\A idx \in 0..(Len(tm.blocks) - 1) : \A dir \in DirInputs :
          MoveBlockCall(idx, dir) =>
              \/ ret' = "false" /\ tm'.blocks = tm.blocks
                    /\ idx + dir \notin 0..(Len(tm.blocks) - 1)
              \/ ret' = "true" /\ Exchanged(tm'.blocks, tm.blocks, idx + 1, idx + dir + 1)]_vars

\* C17 (removeBlock at an invalid index): removeBlock(idx) with idx outside
\* [0, blocks.length) on a store with more than one block does not report
\* success and removes no block.
C17_RemoveBlockOutOfRange ==
    [][\A idx \in IdxInputs :
          (Len(tm.blocks) > 1 /\ idx \notin 0..(Len(tm.blocks) - 1)
             /\ RemoveBlockCall(idx)) =>
              ret' # "true" /\ tm'.blocks = tm.blocks]_vars

\* C18 (paste with no prior copy): pasteFromClipboard(idx) before any
\* copyToClipboard has returned true returns false and leaves the chain and
\* every object of the store as they were.
C18_PasteWithoutCopy ==
    [][\A idx \in IdxInputs :
          (~hist.copied /\ PasteFromClipboardCall(idx)) =>
              ret' = "false" /\ tm' = tm]_vars

\* pasteFromClipboard has returned false on a store nothing was copied from,
\* after other calls
C18_Witness ==
    /\ hist.op = "pasteFromClipboard" /\ ret = "false"
    /\ ~hist.copied /\ hist.ops >= 2 /\ Len(tm.blocks) >= 2

\* C20 (registerTrack and removeTrack): after registerTrack(id) every block has
\* a track id of totalSteps slots, the blocks that had the track hold the
\* pattern they held, and a second registerTrack(id) changes nothing; after
\* removeTrack(id) no block has the track and a second removeTrack(id) changes
\* nothing.
C20_TrackRegistration ==
    [][\A id \in TrackIds :
          /\ RegisterTrackCall(id) =>
                /\ \A b \in 0..(Len(tm'.blocks) - 1) :
                      /\ TrackArray(tm', b, id) # 0
                      /\ Len(tm'.mem[TrackArray(tm', b, id)].refs) = TotalSteps
                      /\ TrackArray(tm, b, id) # 0 =>
                            BlockValue(tm'.mem, tm'.blocks[b + 1])
                               = BlockValue(tm.mem, tm.blocks[b + 1])
                /\ TmRegisterTrack(tm', id).tm = tm'
          /\ RemoveTrackCall(id) =>
                /\ \A b \in 0..(Len(tm'.blocks) - 1) : TrackArray(tm', b, id) = 0
                /\ TmRemoveTrack(tm', id).tm = tm']_vars

\* registerTrack was called, after another call, on a store where each of the
\* two tracks holds a note in the first block
C20_Witness ==
    /\ hist.op = "registerTrack" /\ hist.ops >= 2
    /\ Intact(tm) /\ Len(tm.blocks) >= 2
    /\ LET b == BlockValue(tm.mem, tm.blocks[1])
       IN /\ { b.tracks[i].id : i \in 1..Len(b.tracks) } = TrackIds
          /\ \A i \in 1..Len(b.tracks) :
                \E s \in 1..Len(b.tracks[i].cells) : b.tracks[i].cells[s] # Null

\* the ids of the live voices
VoiceIds == { bassSynths[i] : i \in 1..Len(bassSynths) }

\* C19 (track key set equals voice set): every block's track key set is the set
\* of the live voice ids.
C19_TrackKeysAreVoices ==
    \A i \in 1..Len(blocks) :
        { blocks[i].tracks[j].id : j \in 1..Len(blocks[i].tracks) } = VoiceIds

\* C15 (at least one block, always): the store holds at least one block.
C15_AtLeastOneBlock == Len(blocks) >= 1

\* C21 (clearBlock): clearBlock(idx) empties every note slot and every drum
\* list of block idx, keeping its track keys and track lengths, and leaves the
\* chain, every other block and the clipboard as they were; for an idx outside
\* the chain it changes nothing.
C21_ClearBlock ==
    [][\A idx \in IdxInputs :
          ClearBlockCall(idx) =>
              /\ tm'.blocks = tm.blocks
              /\ tm'.clipboard = tm.clipboard
              /\ BlockValue(tm'.mem, tm'.clipboard) = BlockValue(tm.mem, tm.clipboard)
              /\ \A i \in 1..Len(tm.blocks) :
                    BlockValue(tm'.mem, tm'.blocks[i])
                       = IF i = idx + 1 THEN Emptied(BlockValue(tm.mem, tm.blocks[i]))
                         ELSE BlockValue(tm.mem, tm.blocks[i])
              /\ idx \notin 0..(Len(tm.blocks) - 1) => tm' = tm]_vars

\* a block with notes and drums was cleared while another block and the
\* clipboard held the same pattern: they still hold it
C21_Witness ==
    /\ hist.op = "clearBlock" /\ hist.copied /\ Intact(tm)
    /\ Len(tm.blocks) = 2 /\ hist.len = 2
    /\ Filled(hist.snap) > 0
    /\ BlockValue(tm.mem, tm.clipboard) = hist.snap
    /\ Cardinality(HoldSnap) = 1
    /\ FilledChain(tm) = Filled(hist.snap)
    /\ hist.filled = 2 * Filled(hist.snap)

\* two stores with the same tempo, block count, track ids and, at every block and
\* step, the same note on every track and the same set of drum ids
SameTrackIds(a, b) ==
    {a.tracks[i].id : i \in 1..Len(a.tracks)} = {b.tracks[i].id : i \in 1..Len(b.tracks)}
SameNotes(a, b) ==
    \A i \in 1..Len(a.tracks) : \A j \in 1..Len(b.tracks) :
        a.tracks[i].id = b.tracks[j].id => a.tracks[i].cells = b.tracks[j].cells
SameDrums(a, b) ==
    \A s \in 1..TotalSteps :
        {a.drums[s][j] : j \in 1..Len(a.drums[s])} = {b.drums[s][j] : j \in 1..Len(b.drums[s])}
SameStore(b1, bs1, b2, bs2) ==
    /\ b1 = b2
    /\ Len(bs1) = Len(bs2)
    /\ \A i \in 1..Len(bs1) :
          i <= Len(bs2) =>
             SameTrackIds(bs1[i], bs2[i]) /\ SameNotes(bs1[i], bs2[i]) /\ SameDrums(bs1[i], bs2[i])

\* C22 (CSV round trip): loading the text that exportToCSV has just written
\* succeeds and leaves an equivalent pattern store: the same bpm, the same
\* number of blocks, the same track ids and, at every block and step, the same
\* note on every track and the same set of drum ids.
C22_RoundTrip ==
    [][GenLoadCsv => ret' = "true" /\ SameStore(bpm', blocks', bpm, blocks)]_vars

\* the same for the tempi whose text does not begin with the separator and is
\* a number
C22_RoundTripPlainTempo ==
    [][(GenLoadCsv /\ ~IsNaN(bpm) /\ bpm >= 0)
          => ret' = "true" /\ SameStore(bpm', blocks', bpm, blocks)]_vars

\* a pattern with notes, drums and two voices came back from the round trip
C22_PlainTempoWitness ==
    /\ ret = "true" /\ hist.op = "importFromCSV" /\ edits = MaxCsvEdits - 2
    /\ Len(blocks) = 2 /\ Len(bassSynths) = 2 /\ bpm = 120
    /\ blocks[1].drums[1] = << "kick" >>
    /\ blocks[2].tracks[1].cells[1] = NoteEvent("C", 3, TRUE, FALSE)

\* C23 (malformed metadata): importFromCSV of no text, of a single line, or of a
\* header whose bpm or step count is not a number returns false and leaves
\* bpm, the blocks, the clipboard and the voices as they were.
C23_BadMetadataAborts ==
    [][\A file \in BadMetaFiles :
          LoadCsvOf(file) =>
              /\ ret' = "false"
              /\ bpm' = bpm
              /\ blocks' = blocks
              /\ clipboard' = clipboard
              /\ bassSynths' = bassSynths
              /\ heap' = heap]_vars

\* a failed import after a pattern of two blocks was loaded and a block copied
C23_Witness ==
    /\ hist.op = "importFromCSV" /\ ret = "false" /\ edits = 0
    /\ bpm = 120 /\ Len(blocks) = 2 /\ Len(bassSynths) = 2
    /\ clipboard # NoClipboard
    /\ blocks[1].drums[1] = << "kick" >>

\* the pitch-class names
PitchClasses == {NoteMapRev[i] : i \in 2..Len(NoteMapRev)}

\* C24 (malformed note cells): every note that an import has stored has a
\* pitch-class name and an octave that is a number; a cell that is malformed
\* leaves its slot empty.
C24_ImportedNotesValid ==
    \A b \in 1..Len(blocks) : \A t \in 1..Len(blocks[b].tracks) :
        \A s \in 1..Len(blocks[b].tracks[t].cells) :
            LET n == blocks[b].tracks[t].cells[s]
            IN n # Null => n.note \in PitchClasses /\ ~IsNaN(n.octave)

\* the calls of the log entries from the i-th on, in the order they were made
RECURSIVE CallsFrom(_, _)
CallsFrom(log, i) == IF i > Len(log) THEN << >> ELSE log[i].calls \o CallsFrom(log, i + 1)

C26_PitchMapping ==
    [][\A id \in {"bass-1", "bass-2"} : \A note \in PreviewNotes : \A octave \in PreviewOctaves :
          (PreviewNote(id, note, octave) /\ ctx = "running" /\ NoteIndex(note) >= 0) =>
              LET f == heap'[LiveHandle(id)].lastFreq
                  m == MidiNote(octave, NoteIndex(note))
              IN /\ (note = "A" /\ octave = 4) => (m = 69 /\ f = 440 * 1024)
                 /\ (note = "A" /\ octave = 5) => (m = 81 /\ f = 880 * 1024)
                 /\ m = MidiNote(octave - 1, NoteIndex(note)) + 12
                 /\ f = 2 * Freq(MidiNote(octave - 1, NoteIndex(note)))]_vars

\* (A, 5) was previewed on bass-1 and (A, 4) on bass-2
C26_Witness ==
    /\ edits = 0 /\ ctx = "running"
    /\ heap[LiveHandle("bass-1")].lastFreq = 880 * 1024
    /\ heap[LiveHandle("bass-2")].lastFreq = 440 * 1024

\* C27 (audio unavailable): while no audio context could be created the
\* transport stays stopped: isPlaying is false and nothing is scheduled.
C27_InertWithoutAudio ==
    ctx = "none" => (~isPlaying /\ Len(visualQueue) = 0 /\ Len(run.log) = 0)

\* the voice of id after the valid notes among the calls from the i-th on,
\* played in that order: a slide starts at the frequency of the note before it
\* on this voice, or at its own when there was none, and a note without slide
\* at its own; lastFreq is the frequency of the last of them
RECURSIVE GlideAfter(_, _, _, _)
GlideAfter(v, calls, i, id) ==
    IF i > Len(calls) THEN v
    ELSE LET c == calls[i] IN
         IF c.kind = "bass" /\ c.id = id /\ c.note \in PitchClasses /\ ~IsNaN(c.octave)
         THEN LET f == Freq(MidiNote(c.octave, NoteIndex(c.note)))
                  start == IF c.slide /\ v.lastFreq # 0 THEN v.lastFreq ELSE f
              IN GlideAfter([v EXCEPT !.lastFreq = f, !.osc = [from |-> start, to |-> f]],
                            calls, i + 1, id)
         ELSE GlideAfter(v, calls, i + 1, id)

\* C28 (glide state): a note played with slide starts its glide at the
\* frequency of the valid note played last before it on the same voice
\* instance, by the scheduler or by a preview, or at its own frequency when the
\* voice has played nothing; after a valid play lastFreq is that note's
\* frequency.
C28_GlideState ==
    [][/\ TickDeliver =>
             \A id \in {"bass-1", "bass-2"} :
                 heap'[LiveHandle(id)]
                    = GlideAfter(heap[LiveHandle(id)],
                                 CallsFrom(run'.log, Len(run.log) + 1), 1, id)
       /\ \A id \in {"bass-1", "bass-2"} : \A note \in PreviewNotes : \A octave \in PreviewOctaves :
             (PreviewNote(id, note, octave) /\ ctx = "running") =>
                 heap'[LiveHandle(id)]
                    = GlideAfter(heap[LiveHandle(id)],
                                 << BassCall(id, NoteEvent(note, octave, FALSE, FALSE)) >>, 1, id)]_vars

\* the scheduler's C3 with slide began at the A4 previewed before it, after its
\* A2 with slide, the first note of the voice, had begun at its own frequency
C28_Witness ==
    /\ Len(run.log) >= 2 /\ run.starts = 1
    /\ run.log[1].calls[1].note = "A" /\ run.log[1].calls[1].slide
    /\ heap[LiveHandle("bass-1")].osc
          = [from |-> 440 * 1024, to |-> Freq(MidiNote(3, NoteIndex("C")))]
    /\ heap[LiveHandle("bass-1")].lastFreq = Freq(MidiNote(3, NoteIndex("C")))

\* the play calls that the render made for the step of a log entry
RenderedAt(e) ==
    LET off == (e.block * TotalSteps + e.step) * SecPerStep(render.bpm)
        at == SelectSeq(render.events, LAMBDA x : x.offset = off)
    IN [j \in 1..Len(at) |-> at[j].call]

\* a render that succeeded on the pattern and voices that a live run, in which
\* nothing raised, has played since its start
RenderedAndPlayed ==
    /\ render.status = "ok" /\ render.blocks = blocks /\ render.synths = bassSynths
    /\ run.patFixed /\ run.throws = 0
    /\ ~IsNaN(render.bpm) /\ render.bpm > 0

\* C29 (same per-step logic live and offline): for every step the live
\* scheduler has dispatched, the render made the same play calls (voice, pitch
\* class, octave, slide, accent) with the same gate length.
C29_SameArguments ==
    RenderedAndPlayed =>
        \A i \in 1..Len(run.log) :
            /\ RenderedAt(run.log[i]) = run.log[i].calls
            /\ (\E j \in 1..Len(run.log[i].calls) : run.log[i].calls[j].kind = "bass")
                  => render.gate = run.log[i].gate

\* the same without the gate length
C29_SameNotes ==
    RenderedAndPlayed =>
        \A i \in 1..Len(run.log) : RenderedAt(run.log[i]) = run.log[i].calls

\* a render and a live run that have both played a note of the same step
C29_SameNotesWitness ==
    /\ RenderedAndPlayed
    /\ \E i \in 1..Len(run.log) : \E j \in 1..Len(run.log[i].calls) :
          run.log[i].calls[j].kind = "bass"

\* the play calls of the steps from the g-th on of a pass over the blocks
\* rendered, block 0 first, repeated render.reps times, the g-th step at g
\* steps of time from the first
RECURSIVE ChainEvents(_)
ChainEvents(g) ==
    IF g >= render.reps * Len(render.blocks) * TotalSteps THEN << >>
    ELSE LET blk == render.blocks[((g \div TotalSteps) % Len(render.blocks)) + 1]
             step == g % TotalSteps
             calls == StepCalls([tracks |-> blk.tracks, drums |-> blk.drums[step + 1]],
                                step, OfflineVoices(render.synths))
         IN Events(calls, g * SecPerStep(render.bpm)) \o ChainEvents(g + 1)

C31_StoppedNoHighlight == ~isPlaying => ui.highlight = 0 - 1


\* C38: editingBlock is an index of the block chain in every state the
\* interface reaches by its block buttons, playback and the frames that
\* consume the visual queue
C38_EditingBlockValid == 0 <= editingBlock /\ editingBlock < Len(blocks)


\* the entries of the run's log dispatched for a block index at or beyond the
\* length the chain had at that moment
Beyond(i) == run.log[i].block >= run.log[i].n

\* C35: while blocks are added, removed, pasted and moved between the ticks,
\* currentPlayStep stays within 0 .. totalSteps - 1, no more than totalSteps
\* consecutive steps are dispatched for a block index at or beyond the chain's
\* length, and after the last step of such a block the cursor is on block 0
C35_CursorValid ==
    /\ 0 <= currentPlayStep /\ currentPlayStep < TotalSteps
    /\ \A i \in 1..Len(run.log) :
         /\ i + TotalSteps <= Len(run.log)
               => \E j \in i..(i + TotalSteps) : ~Beyond(j)
         /\ Beyond(i) /\ run.log[i].step = TotalSteps - 1 /\ i < Len(run.log)
               => run.log[i + 1].block = 0 /\ run.log[i + 1].step = 0

\* a block was removed under the cursor: totalSteps steps were dispatched
\* beyond the chain, and the next one on block 0
C35_Witness ==
    /\ ~run.patFixed
    /\ \E i \in 1..Len(run.log) :
         /\ i + TotalSteps <= Len(run.log)
         /\ \A j \in i..(i + TotalSteps - 1) : Beyond(j)
         /\ run.log[i + TotalSteps].block = 0


\* C32: the filter decay time of a note is gateLength x 1.2 when slide is set,
\* with or without accent; else 0.18 s when accent is set; else
\* 0.1 + (decay / 100) x 0.8 s
C32_FilterDecayPolicy ==
    dsp.filter.notes > 0 =>
        dsp.filter.decayTime =
            IF dsp.filter.slide THEN (dsp.filter.duration * 12) \div 10
            ELSE IF dsp.filter.accent THEN 2088
            ELSE 1160 + (dsp.filter.decay * 9280) \div 100

\* a note with slide and accent went through the filter, at the live gate
C32_Witness ==
    /\ dsp.filter.notes > 0 /\ dsp.filter.slide /\ dsp.filter.accent
    /\ dsp.filter.duration = LiveGate /\ dsp.filter.decayTime = 3480

\* C33: after any sequence of setDistortion calls the shaper's curve depends
\* only on the last amount: none at or below the threshold (1 in the
\* asymmetric family, 0 in the sigmoid family), so none for amount 0 in both,
\* and otherwise the curve generated for that amount
C33_DistortionByLastAmount ==
    dsp.calls > 0 =>
        /\ dsp.asym.curve = IF dsp.amount <= 1 THEN NullCurve
                            ELSE [family |-> "asymmetric", k |-> dsp.amount]
        /\ dsp.sig.curve = IF dsp.amount <= 0 THEN NullCurve
                           ELSE [family |-> "sigmoid", k |-> dsp.amount]
        /\ dsp.amount = 0 => dsp.asym.curve = NullCurve /\ dsp.sig.curve = NullCurve

\* amount 0 set last on units that had generated the curve for amount 20
C33_Witness ==
    /\ dsp.calls = MaxDistCalls /\ dsp.amount = 0
    /\ DOMAIN dsp.asym.cache = {20}
    /\ dsp.asym.curve = NullCurve /\ dsp.sig.curve = NullCurve

\* C34: every sample is written as round(sample x 32767) when it is positive
\* and round(sample x 32768) when it is negative, after clamping to [-1, 1],
\* and the written value is within -32768 .. 32767
C34_Quantization ==
    dsp.wav.count > 0 =>
        LET c == Clamp(dsp.wav.sample)
        IN /\ dsp.wav.written = IF c < 0 THEN Round(c * 32768, SampleDen)
                                ELSE Round(c * 32767, SampleDen)
           /\ dsp.wav.written >= 0 - 32768 /\ dsp.wav.written <= 32767


\* x >= y on JavaScript numbers: false as soon as one side is NaN
Ge(x, y) == ~IsNaN(x) /\ ~IsNaN(y) /\ x >= y

\* the dispatch times of the run's log are strictly increasing
Increasing(log) ==
    \A i \in 1..(Len(log) - 1) : Lt(log[i].time, log[i + 1].time)

\* C36: every step a tick dispatches has a time strictly below the audio clock
\* of that moment plus the lookahead, the dispatch times of a run are strictly
\* increasing, and when the tick returns nextNoteTime is at or beyond the
\* audio clock plus the lookahead
C36_LookaheadWindow ==
    [][TickDeliver =>
         /\ \A i \in (Len(run.log) + 1)..Len(run'.log) :
               Lt(run'.log[i].time, Add(clock, Lookahead))
         /\ Increasing(run'.log)
         /\ (~hung' /\ run'.throws = run.throws)
               => Ge(nextNoteTime', Add(clock, Lookahead))]_vars

\* the same for the ticks of a run in which no play call has raised and the
\* tempo is a positive number
C36_WindowOfSoundRuns ==
    [][(TickDeliver /\ run'.throws = 0 /\ ~IsNaN(bpm) /\ bpm > 0) =>
         /\ \A i \in (Len(run.log) + 1)..Len(run'.log) :
               Lt(run'.log[i].time, Add(clock, Lookahead))
         /\ Increasing(run'.log)
         /\ ~hung' /\ Ge(nextNoteTime', Add(clock, Lookahead))]_vars


\* C39: pasteFromClipboard(idx) on a store whose clipboard is not empty returns
\* true and makes the chain one block longer; the new block is a new object
\* at position idx + 1, directly after the block at idx, that holds the
\* clipboard's pattern (for idx past the last position: at the end); every
\* block the chain had is the same object with the same pattern, in the same
\* order, and the clipboard is the same object with the same pattern
C39_PasteFrame ==
    [][\A idx \in IdxInputs :
          (tm.clipboard # 0 /\ PasteFromClipboardCall(idx)) =>
              LET n == Len(tm.blocks)
                  at == IF idx + 1 > n THEN n ELSE idx + 1
              IN /\ ret' = "true"
                 /\ Len(tm'.blocks) = n + 1
                 /\ tm'.blocks[at + 1] \notin { tm.blocks[i] : i \in 1..n } \cup {tm.clipboard}
                 /\ BlockValue(tm'.mem, tm'.blocks[at + 1])
                       = BlockValue(tm.mem, tm.clipboard)
                 /\ \A i \in 1..n :
                       LET j == IF i <= at THEN i ELSE i + 1
                       IN /\ tm'.blocks[j] = tm.blocks[i]
                          /\ BlockValue(tm'.mem, tm'.blocks[j])
                                = BlockValue(tm.mem, tm.blocks[i])
                 /\ tm'.clipboard = tm.clipboard
                 /\ BlockValue(tm'.mem, tm'.clipboard)
                       = BlockValue(tm.mem, tm.clipboard)]_vars

\* the clipboard was pasted between two blocks that hold other patterns
C39_Witness ==
    /\ hist.op = "pasteFromClipboard" /\ ret = "true"
    /\ hist.len = 2 /\ Len(tm.blocks) = 3
    /\ BlockValue(tm.mem, tm.blocks[2]) = BlockValue(tm.mem, tm.clipboard)
    /\ BlockValue(tm.mem, tm.blocks[1]) # BlockValue(tm.mem, tm.clipboard)
    /\ BlockValue(tm.mem, tm.blocks[3]) # BlockValue(tm.mem, tm.clipboard)


\* the transport is running on a context, in a run started early enough
RunningEarly == isPlaying /\ ctx = "running" /\ run.starts > 0 /\ run.t0 <= LiveStartBy

\* C37: while the transport is running, with ticks arriving and the audio
\* clock advancing, a next step is eventually dispatched, whatever tempo the
\* bpm input or importFromCSV has stored: a run that stays running gets past
\* its first step
C37_SchedulerProgress ==
    RunningEarly ~> (~isPlaying \/ Len(run.log) >= 2)

\* the same for the runs whose tempo stays a positive number
C37_ProgressAtPositiveTempo ==
    RunningEarly ~> (~isPlaying \/ Len(run.log) >= 2 \/ IsNaN(bpm) \/ bpm <= 0)

====
